---------------------------- MODULE Spec2Model ----------------------------
(***************************************************************************)
(* Model of the MCP discovery / registry subsystem (src/mcp_discovery.py): *)
(* the registry with its tool cache and durable file, the discovery-service*)
(* client, the candidate-probing functions and the gateway handlers.       *)
(*                                                                         *)
(* Conventions                                                             *)
(*  - Python dicts keep insertion order, so `servers` is a sequence of     *)
(*    descriptors ordered by first insertion; the other dicts are never    *)
(*    iterated and are functions.                                          *)
(*  - Time is in seconds.  Every handler is given the instant t at which   *)
(*    it reads datetime.now(); the clock never runs backwards, and a       *)
(*    handler that stamps a registration runs strictly after the previous  *)
(*    clock reading (it was preceded by network or file I/O).              *)
(*  - Every HTTP exchange is an input of the handler that makes it: a      *)
(*    sequence of responses, one per candidate endpoint.  `http_log`       *)
(*    records the requests the last handler actually sent.                 *)
(*  - `call` and `ret` record the last handler's arguments and its return  *)
(*    value (or the fault it raised).                                      *)
(***************************************************************************)
EXTENDS Integers, Sequences, FiniteSets, TLC

VARIABLES
    servers,             \* MCPRegistry.servers: name -> MCPServer, in insertion order
    tool_cache,          \* MCPRegistry.tool_cache: name -> tools
    last_cache_refresh,  \* MCPRegistry.last_cache_refresh: name -> time
    registry_file,       \* the durable JSON file behind MCPRegistry.registry_file
    service_available,   \* MCPDiscoveryClient._service_available
    last_check,          \* MCPDiscoveryClient._last_check
    clock,               \* the last value datetime.now() returned
    call,                \* the last handler call: its name and arguments
    ret,                 \* what that call returned
    http_log,            \* the HTTP requests that call sent, in order
    last_fetch,          \* per service, the last catalog fetch that went to the
                         \* network: when it ran and the tools it returned
    environ,             \* os.environ: the values of the auth variables
    tool_catalog,        \* the file cagent_examples/tool_catalog.yaml
    pending              \* the coroutines suspended at an await, with their locals

vars == <<servers, tool_cache, last_cache_refresh, registry_file,
          service_available, last_check, clock, call, ret, http_log, last_fetch,
          environ, tool_catalog, pending>>

registry_vars == <<servers, tool_cache, last_cache_refresh, registry_file>>
client_vars == <<service_available, last_check>>

-----------------------------------------------------------------------------
(* Program constants *)

\* Optional[datetime] = None: a time that was never set
NoTime == -1

\* MCPRegistry.cache_ttl = timedelta(minutes=5), in seconds
cache_ttl == 5 * 60

\* MCPDiscoveryClient._check_interval = timedelta(seconds=30)
check_interval == 30

\* response.text[:500]
TextLimit == 500

-----------------------------------------------------------------------------
(* Python values *)

\* A JSON / Python value as far as the code inspects it: a list with its
\* items, None, or some other non-list value (truthy: a string, a dict).
PyList(items) == [kind |-> "list", items |-> items]
PyNone == [kind |-> "None", items |-> <<>>]
PyOther == [kind |-> "other", items |-> <<>>]

\* Python truthiness: `if tools:`
Truthy(v) == \/ v.kind = "other"
             \/ v.kind = "list" /\ v.items # <<>>

\* len(v); None has no len() and raises TypeError
HasLen(v) == v.kind # "None"
PyLen(v) == Len(v.items)

Min(a, b) == IF a < b THEN a ELSE b

-----------------------------------------------------------------------------
(* MCPServer and the ordered dict of servers *)

MCPServer(name, url, description, auth_type, auth_token_env, enabled) ==
    [name |-> name, url |-> url, description |-> description,
     auth_type |-> auth_type, auth_token_env |-> auth_token_env,
     enabled |-> enabled, last_seen |-> NoTime, tools |-> PyList(<<>>)]

\* dict.get(name) found nothing
None == MCPServer("", "", "", "None", "None", FALSE)

ServerNames(srvs) == {srvs[i].name : i \in 1..Len(srvs)}

IndexOf(srvs, name) == CHOOSE i \in 1..Len(srvs) : srvs[i].name = name

\* self.servers.get(name)
get(srvs, name) ==
    IF name \in ServerNames(srvs) THEN srvs[IndexOf(srvs, name)] ELSE None

\* self.servers[server.name] = server: an existing key keeps its position,
\* a new key is appended
DictSet(srvs, server) ==
    IF server.name \in ServerNames(srvs)
    THEN [srvs EXCEPT ![IndexOf(srvs, server.name)] = server]
    ELSE Append(srvs, server)

\* del self.servers[name]
DictDel(srvs, name) ==
    LET i == IndexOf(srvs, name)
    IN  SubSeq(srvs, 1, i - 1) \o SubSeq(srvs, i + 1, Len(srvs))

\* del d[name] on a dict modelled as a function
FunDel(f, name) == [k \in DOMAIN f \ {name} |-> f[k]]

\* d[name] = v on a dict modelled as a function
FunSet(f, name, v) == [k \in DOMAIN f \cup {name} |-> IF k = name THEN v ELSE f[k]]

-----------------------------------------------------------------------------
(* The durable file: _save_registry / _load_registry *)

\* datetime -> JSON: an ISO string, or null for None
JsonTime(t) == IF t = NoTime THEN <<"null">> ELSE <<"iso", t>>

\* a dump that writes the token the descriptor's variable holds
model_dump_resolved(server) ==
    [server EXCEPT !.last_seen = IF server.last_seen = NoTime THEN <<"null">>
                                 ELSE <<"iso", server.last_seen>>,
                   !.auth_token_env = IF @ \in DOMAIN environ THEN environ[@] ELSE @]

\* server.model_dump(mode="json")
model_dump(server) == [server EXCEPT !.last_seen = JsonTime(server.last_seen)]

\* MCPServer(**server_data) is valid: tools must be a list
ValidServerData(d) == d.tools.kind = "list"

\* MCPServer(**server_data)
ParseServer(d) ==
    [d EXCEPT !.last_seen = IF d.last_seen = <<"null">> THEN NoTime ELSE d.last_seen[2]]

\* the registry file: whether it exists, whether json.load reads it, and the
\* entries of its "servers" object in order
NoFile == [exists |-> FALSE, parses |-> FALSE, servers |-> <<>>]

\* a mutation that is not followed by self._save_registry()
_save_registry_skipped(srvs, file, io) == file

\* _save_registry: the whole file is rewritten; a failure is logged and
\* swallowed.  io = "ok" | "error" (mkdir or open failed: file untouched) |
\* "partial" (open(..., "w") truncated the file and json.dump or the write
\* failed: the file holds a prefix of the JSON text)
_save_registry(srvs, file, io) ==
    IF io = "ok"
    THEN [exists |-> TRUE, parses |-> TRUE,
          servers |-> [i \in 1..Len(srvs) |-> model_dump(srvs[i])]]
    ELSE IF io = "partial"
    THEN [exists |-> TRUE, parses |-> FALSE, servers |-> <<>>]
    ELSE file

RECURSIVE LoadEntries(_, _)
\* the loop of _load_registry: entries are stored one by one until one is
\* invalid, which raises out of the loop (caught, logged)
LoadEntries(entries, acc) ==
    IF entries = <<>> THEN acc
    ELSE IF ~ValidServerData(Head(entries)) THEN acc
    ELSE LoadEntries(Tail(entries), DictSet(acc, ParseServer(Head(entries))))

\* _load_registry
_load_registry(file) ==
    IF file.exists /\ file.parses THEN LoadEntries(file.servers, <<>>) ELSE <<>>

GithubMcp == MCPServer("github-mcp", "http://localhost:11003",
                       "GitHub MCP Server for repository operations",
                       "bearer", "GITHUB_TOKEN", TRUE)

\* a tool_catalog.yaml: whether the file exists, whether yaml.safe_load reads
\* it, and its "toolsets" entries, each with its type, whether it has the
\* key "ref", and its ref and description
ToolCatalog(toolsets) == [exists |-> TRUE, valid |-> TRUE, toolsets |-> toolsets]
NoCatalog == [exists |-> FALSE, valid |-> FALSE, toolsets |-> << >>]
Toolset(type, has_ref, ref) ==
    [type |-> type, has_ref |-> has_ref, ref |-> ref, description |-> ""]

\* the descriptor registered for a toolset entry of the catalog
Placeholder(tool) ==
    MCPServer(tool.ref, "http://localhost:11003/tools/" \o tool.ref, tool.description,
              "None", "None", FALSE)

RECURSIVE RegisterToolsets(_, _)
\* the loop over catalog.get("toolsets", [])
RegisterToolsets(toolsets, srvs) ==
    IF toolsets = << >> THEN srvs
    ELSE LET tool == Head(toolsets)
         IN  IF tool.type = "mcp" /\ tool.has_ref /\ tool.ref \notin ServerNames(srvs)
             THEN RegisterToolsets(Tail(toolsets), Append(srvs, Placeholder(tool)))
             ELSE RegisterToolsets(Tail(toolsets), srvs)

\* seeding that replaces a github-mcp descriptor that is already there
SeedOverwrites(srvs) == DictSet(srvs, GithubMcp)

\* the first block of _register_defaults: github-mcp, if not already there
SeedGithub(srvs) ==
    IF "github-mcp" \notin ServerNames(srvs) THEN Append(srvs, GithubMcp) ELSE srvs

\* _register_defaults
_register_defaults(srvs, catalog) ==
    IF catalog.exists /\ catalog.valid
    THEN RegisterToolsets(catalog.toolsets, SeedGithub(srvs))
    ELSE SeedGithub(srvs)

-----------------------------------------------------------------------------
(* MCPRegistry methods as functions of the registry state *)

\* register without `server.last_seen = datetime.now()`
register_unstamped(srvs, server, t) == DictSet(srvs, server)

\* MCPRegistry.register: the new content of self.servers
register(srvs, server, t) == DictSet(srvs, [server EXCEPT !.last_seen = t])

\* MCPRegistry.unregister: the new content of self.servers
unregister(srvs, name) ==
    IF name \in ServerNames(srvs) THEN DictDel(srvs, name) ELSE srvs

\* unregister without `del self.tool_cache[name]`
unregister_keeps_cache(srvs, cache, name) == cache

\* MCPRegistry.unregister: the new content of self.tool_cache
unregister_cache(srvs, cache, name) ==
    IF name \in ServerNames(srvs) /\ name \in DOMAIN cache
    THEN FunDel(cache, name) ELSE cache

\* MCPRegistry.get_tools
get_tools(cache, name) == IF name \in DOMAIN cache THEN cache[name] ELSE PyList(<<>>)

\* MCPRegistry.update_tools: the new content of self.servers
update_tools(srvs, name, tools, t) ==
    IF name \in ServerNames(srvs)
    THEN [srvs EXCEPT ![IndexOf(srvs, name)] =
              [@ EXCEPT !.tools = tools, !.last_seen = t]]
    ELSE srvs

\* a validity test that counts the instant the TTL ends as still valid
is_cache_valid_inclusive(refreshed, name, t) ==
    IF name \notin DOMAIN refreshed THEN FALSE
    ELSE t - refreshed[name] <= cache_ttl

\* MCPRegistry.is_cache_valid
is_cache_valid(refreshed, name, t) ==
    IF name \notin DOMAIN refreshed THEN FALSE
    ELSE t - refreshed[name] < cache_ttl


-----------------------------------------------------------------------------
(* HTTP responses *)

\* no response at all: the request raised (connection refused, timeout)
NoResponse == 0

\* a key that a JSON object does not have
Missing == [kind |-> "missing", items |-> <<>>]

\* A response body as response.json() / response.text see it.
\*   shape "malformed": json() raises      shape "scalar": a string, number, null
\*   shape "list": a JSON array (tools)    shape "dict": an object with the
\*   values of its "tools" and "data" keys (Missing when the key is absent)
\*   len: the length of response.text
Body(shape, tools, data, len) == [shape |-> shape, tools |-> tools, data |-> data, len |-> len]

Response(status, body) == [status |-> status, body |-> body]

EmptyBody == Body("dict", Missing, Missing, 2)

\* response.text[:500]
Truncate(body) == [body EXCEPT !.len = Min(body.len, TextLimit)]

\* one request as recorded in http_log, with the response it got
Request(method, url, path, resp) ==
    [method |-> method, url |-> url, path |-> path,
     status |-> resp.status, body |-> resp.body]

\* os.getenv(name): None (here "") for a variable that is not set
getenv(name) == IF name \in DOMAIN environ THEN environ[name] ELSE ""

NoHeader == [name |-> "", value |-> ""]

\* the auth header of fetch_mcp_tools and invoke_mcp_tool: the token is read
\* from the environment variable the descriptor names, at every call
AuthHeaders(server) ==
    IF server.auth_type = "bearer" /\ server.auth_token_env \notin {"None", ""}
    THEN IF getenv(server.auth_token_env) # ""
         THEN [name |-> "Authorization",
               value |-> "Bearer " \o getenv(server.auth_token_env)]
         ELSE NoHeader
    ELSE IF server.auth_type = "api_key" /\ server.auth_token_env \notin {"None", ""}
    THEN IF getenv(server.auth_token_env) # ""
         THEN [name |-> "X-API-Key", value |-> getenv(server.auth_token_env)]
         ELSE NoHeader
    ELSE NoHeader

-----------------------------------------------------------------------------
(* probe_mcp_server *)

endpoints_to_try == <<"/health", "/api/health", "/healthz", "/", "/api/tools", "/tools">>

RECURSIVE ProbeAnyStatus(_, _)
\* the probe loop taking any HTTP answer, whatever its status, as alive
ProbeAnyStatus(resps, i) ==
    IF i > Len(endpoints_to_try) THEN [hit |-> 0, attempts |-> Len(endpoints_to_try)]
    ELSE IF resps[i].status # NoResponse THEN [hit |-> i, attempts |-> i]
    ELSE ProbeAnyStatus(resps, i + 1)

RECURSIVE ProbeStopsOnError(_, _)
\* the probe loop giving up at the first status that is neither 200 nor 404
ProbeStopsOnError(resps, i) ==
    IF i > Len(endpoints_to_try) THEN [hit |-> 0, attempts |-> Len(endpoints_to_try)]
    ELSE IF resps[i].status = 200 THEN [hit |-> i, attempts |-> i]
    ELSE IF resps[i].status \notin {NoResponse, 404} THEN [hit |-> 0, attempts |-> i]
    ELSE ProbeStopsOnError(resps, i + 1)

RECURSIVE ProbeLoop(_, _)
\* the loop of probe_mcp_server from candidate i on: the index of the first
\* candidate answering 200 (0 when every remaining candidate fails) and the
\* number of the last candidate requested
ProbeLoop(resps, i) ==
    IF i > Len(endpoints_to_try) THEN [hit |-> 0, attempts |-> Len(endpoints_to_try)]
    ELSE IF resps[i].status = 200 THEN [hit |-> i, attempts |-> i]
    ELSE ProbeLoop(resps, i + 1)

\* the value probe_mcp_server returns
probe_mcp_server(resps) ==
    LET i == ProbeLoop(resps, 1).hit
    IN  IF i = 0
        THEN [alive |-> FALSE, endpoint |-> "None", status_code |-> NoResponse,
              data |-> EmptyBody]
        ELSE [alive |-> TRUE, endpoint |-> endpoints_to_try[i],
              status_code |-> resps[i].status,
              data |-> IF resps[i].body.shape = "malformed"
                       THEN Truncate(resps[i].body) ELSE resps[i].body]

\* the requests probe_mcp_server sends
ProbeLog(url, resps) ==
    [i \in 1..ProbeLoop(resps, 1).attempts |-> Request("GET", url, endpoints_to_try[i], resps[i])]

-----------------------------------------------------------------------------
(* fetch_mcp_tools *)

tool_endpoints == <<"/api/tools", "/tools", "/api/v1/tools", "/mcp/tools",
                    "/.well-known/mcp.json">>

\* data.get("tools", data.get("data", []))
DictTools(body) ==
    IF body.tools # Missing THEN body.tools
    ELSE IF body.data # Missing THEN body.data
    ELSE PyList(<<>>)

\* `tools` after one candidate's response, given its value before
ToolsAfter(tools, resp) ==
    IF resp.status # 200 \/ resp.body.shape = "malformed" THEN tools
    ELSE IF resp.body.shape = "list" THEN resp.body.tools
    ELSE IF resp.body.shape = "dict" THEN DictTools(resp.body)
    ELSE tools

\* `break` is reached after this candidate
FetchBreaks(tools, resp) ==
    /\ resp.status = 200
    /\ resp.body.shape # "malformed"
    /\ Truthy(ToolsAfter(tools, resp))

RECURSIVE FetchLoop(_, _, _)
\* the loop over tool_endpoints from candidate i on, with the current value
\* of `tools`: the final `tools` and the number of the last candidate tried
FetchLoop(resps, i, tools) ==
    IF i > Len(tool_endpoints) THEN [tools |-> tools, attempts |-> Len(tool_endpoints)]
    ELSE IF FetchBreaks(tools, resps[i])
         THEN [tools |-> ToolsAfter(tools, resps[i]), attempts |-> i]
         ELSE FetchLoop(resps, i + 1, ToolsAfter(tools, resps[i]))

\* fetch_mcp_tools served from the cache: no request is sent
FetchFromCache(refreshed, name, force_refresh, t) ==
    ~force_refresh /\ is_cache_valid(refreshed, name, t)

\* the value fetch_mcp_tools returns
fetch_mcp_tools(cache, refreshed, server, force_refresh, resps, t) ==
    IF FetchFromCache(refreshed, server.name, force_refresh, t)
    THEN get_tools(cache, server.name)
    ELSE FetchLoop(resps, 1, PyList(<<>>)).tools

\* the requests fetch_mcp_tools sends, each with the auth header
FetchLog(refreshed, server, force_refresh, resps, t) ==
    IF FetchFromCache(refreshed, server.name, force_refresh, t) THEN <<>>
    ELSE [i \in 1..FetchLoop(resps, 1, PyList(<<>>)).attempts |->
              Request("GET", server.url, tool_endpoints[i], resps[i])
                 @@ [headers |-> AuthHeaders(server)]]

-----------------------------------------------------------------------------
(* invoke_mcp_tool *)

invoke_endpoints(tool_name) ==
    << "/api/tools/" \o tool_name \o "/invoke",
       "/tools/" \o tool_name \o "/invoke",
       "/api/tools/" \o tool_name,
       "/api/invoke",
       "/invoke" >>

NumInvokeEndpoints == Len(invoke_endpoints(""))

\* invoke_mcp_tool treating every failure status like a 404
InvokeReturnsOnSuccessOnly(resp) ==
    resp.status \in {200, 201} /\ resp.body.shape # "malformed"

\* the candidate's response makes invoke_mcp_tool return (success or failure)
InvokeReturns(resp) ==
    \/ resp.status \in {200, 201} /\ resp.body.shape # "malformed"
    \/ resp.status \notin {NoResponse, 200, 201, 404}

RECURSIVE InvokeFrom(_, _)
\* the loop of invoke_mcp_tool from candidate i on: the index of the
\* candidate whose response makes it return, or 0 when the loop runs out
InvokeFrom(resps, i) ==
    IF i > NumInvokeEndpoints THEN 0
    ELSE IF InvokeReturns(resps[i]) THEN i
    ELSE InvokeFrom(resps, i + 1)

\* the number of POST requests invoke_mcp_tool sends
InvokeAttempts(resps) ==
    IF InvokeFrom(resps, 1) = 0 THEN NumInvokeEndpoints ELSE InvokeFrom(resps, 1)

\* an invocation that raises when no candidate made it return
InvokeRaisesWhenExhausted(server, tool_name, resps) ==
    LET i == InvokeFrom(resps, 1)
    IN  IF i = 0
        THEN [success |-> FALSE, kind |-> "exception", status |-> NoResponse,
              body |-> EmptyBody, server |-> server.name, tool |-> tool_name]
        ELSE IF resps[i].status \in {200, 201}
        THEN [success |-> TRUE, kind |-> "result", status |-> resps[i].status,
              body |-> resps[i].body, server |-> server.name, tool |-> tool_name]
        ELSE [success |-> FALSE, kind |-> "http_error", status |-> resps[i].status,
              body |-> Truncate(resps[i].body), server |-> server.name,
              tool |-> tool_name]

\* the value invoke_mcp_tool returns
invoke_mcp_tool(server, tool_name, resps) ==
    LET i == InvokeFrom(resps, 1)
    IN  IF i = 0
        THEN [success |-> FALSE, kind |-> "could_not_invoke", status |-> NoResponse,
              body |-> EmptyBody, server |-> server.name, tool |-> tool_name]
        ELSE IF resps[i].status \in {200, 201}
        THEN [success |-> TRUE, kind |-> "result", status |-> resps[i].status,
              body |-> resps[i].body, server |-> server.name, tool |-> tool_name]
        ELSE [success |-> FALSE, kind |-> "http_error", status |-> resps[i].status,
              body |-> Truncate(resps[i].body), server |-> server.name,
              tool |-> tool_name]

\* the requests invoke_mcp_tool sends, each with the auth header
InvokeLog(server, tool_name, resps) ==
    [i \in 1..InvokeAttempts(resps) |->
        Request("POST", server.url, invoke_endpoints(tool_name)[i], resps[i])
           @@ [headers |-> AuthHeaders(server)]]

-----------------------------------------------------------------------------
(* MCPDiscoveryClient *)

\* is_available answering from its cache whatever the age of the last check
AvailabilityCachedForever(force_check, available, checked, t) ==
    /\ ~force_check
    /\ available # "None"
    /\ checked # NoTime

\* is_available answers from its cache: no health request is sent
AvailabilityCached(force_check, available, checked, t) ==
    /\ ~force_check
    /\ available # "None"
    /\ checked # NoTime
    /\ t - checked < check_interval

\* MCPDiscoveryClient.is_available at time t, `health` being the status of
\* the GET /health it may send: the value returned, the new
\* _service_available and _last_check, and whether a request was sent
is_available(force_check, available, checked, t, health) ==
    IF AvailabilityCached(force_check, available, checked, t)
    THEN [value |-> available = "True", available |-> available,
          last_check |-> checked, sent |-> FALSE]
    ELSE [value |-> health = 200,
          available |-> IF health = 200 THEN "True" ELSE "False",
          last_check |-> t, sent |-> TRUE]

\* MCPService.port: Optional[int] = None
NoPort == 0

\* an MCPService as far as the gateway reads it; endpoint "" is None
MCPService(name, endpoint, port) == [name |-> name, endpoint |-> endpoint, port |-> port]

\* the JSON answer of the discovery service: whether it parses into
\* MCPService objects, its "services", and its "total" and "source" keys
\* (has_total / has_source FALSE when the key is absent)
ServiceListing(valid, services, has_total, total, has_source, source) ==
    [valid |-> valid, services |-> services, has_total |-> has_total,
     total |-> total, has_source |-> has_source, source |-> source]

ErrorResult == [services |-> <<>>, total |-> 0, source |-> "error"]

\* a DiscoveryResult built from the body whatever the status
DiscoveryResultAnyStatus(resp, default_source) ==
    IF resp.status # NoResponse /\ resp.body.valid
    THEN [services |-> resp.body.services,
          total |-> IF resp.body.has_total THEN resp.body.total
                    ELSE Len(resp.body.services),
          source |-> IF resp.body.has_source THEN resp.body.source
                     ELSE default_source]
    ELSE ErrorResult

\* the DiscoveryResult built by get_services / refresh_services from the
\* response; default_source is "discovery-service" or "refresh"
DiscoveryResult(resp, default_source) ==
    IF resp.status = 200 /\ resp.body.valid
    THEN [services |-> resp.body.services,
          total |-> IF resp.body.has_total THEN resp.body.total
                    ELSE Len(resp.body.services),
          source |-> IF resp.body.has_source THEN resp.body.source
                     ELSE default_source]
    ELSE ErrorResult

\* MCPDiscoveryClient.refresh_services
refresh_services(resp) == DiscoveryResult(resp, "refresh")

\* MCPDiscoveryClient.get_services
get_services(resp) == DiscoveryResult(resp, "discovery-service")

-----------------------------------------------------------------------------
(* discover_servers: the pieces of the handler *)

\* f"http://localhost:{port}"
LocalUrl(port) ==
    "http://localhost:" \o (IF port = NoPort THEN "None" ELSE ToString(port))

\* one entry of `discovered`
Discovered(name, url, source) == [name |-> name, url |-> url, source |-> source]

\* the discovery service is asked whatever is_available() answered
AsksUnavailableService(request, avail) == request.use_discovery_service

\* the discovery service is asked: use_discovery_service and is_available()
AsksService(request, avail) == request.use_discovery_service /\ avail.value

\* the entries taken from the discovery service's refresh result
RemoteDiscovered(request, avail, result) ==
    IF AsksService(request, avail) /\ result.total > 0
    THEN [i \in 1..Len(result.services) |->
            Discovered(result.services[i].name,
                       IF result.services[i].endpoint # ""
                       THEN result.services[i].endpoint
                       ELSE LocalUrl(result.services[i].port),
                       "mcp-discovery-service")]
    ELSE <<>>

\* any(x in name for x in ["mcp", "tool", "agent"]), on the container names
\* of the model
NameSuggestsMcp(name) == name \in {"github-mcp", "mcp-fs", "tool-box", "agent-x"}

\* a running container: its name, whether a label key starts with "mcp.",
\* and its published host ports in order
Container(name, labelled, host_ports) ==
    [name |-> name, labelled |-> labelled, host_ports |-> host_ports]

RECURSIVE DockerTargets(_)
\* the (name, url) pairs the Docker scan probes, in order
DockerTargets(containers) ==
    IF containers = <<>> THEN <<>>
    ELSE LET c == Head(containers)
         IN  (IF NameSuggestsMcp(c.name) \/ c.labelled
              THEN [i \in 1..Len(c.host_ports) |->
                      Discovered(c.name, LocalUrl(c.host_ports[i]), "docker")]
              ELSE <<>>)
             \o DockerTargets(Tail(containers))

\* the (name, url) pairs the port scan probes, in order
PortTargets(scan_ports) ==
    [i \in 1..Len(scan_ports) |->
        Discovered("localhost-" \o ToString(scan_ports[i]), LocalUrl(scan_ports[i]),
                   "port_scan")]

\* what the local scan probes; docker.ok FALSE: the Docker runtime is not
\* available (the exception is caught and logged)
LocalTargets(request, docker) ==
    (IF request.scan_docker /\ docker.ok THEN DockerTargets(docker.containers) ELSE <<>>)
    \o (IF request.scan_localhost THEN PortTargets(request.scan_ports) ELSE <<>>)

RECURSIVE ScanFound(_, _)
\* the targets whose probe is alive, in order; world[url] is the sequence
\* of responses the server at url gives to the probe's candidates
ScanFound(targets, world) ==
    IF targets = <<>> THEN <<>>
    ELSE (IF probe_mcp_server(world[Head(targets).url]).alive
          THEN <<Head(targets)>> ELSE <<>>)
         \o ScanFound(Tail(targets), world)

RECURSIVE ScanLog(_, _)
\* the requests the probes of the targets send
ScanLog(targets, world) ==
    IF targets = <<>> THEN <<>>
    ELSE ProbeLog(Head(targets).url, world[Head(targets).url])
         \o ScanLog(Tail(targets), world)

RECURSIVE AutoRegisterOverwrites(_, _, _)
\* the auto-registration loop without the `if not existing` test
AutoRegisterOverwrites(srvs, discovered, t) ==
    IF discovered = <<>> THEN srvs
    ELSE LET d == Head(discovered)
         IN  AutoRegisterOverwrites(
                register(srvs,
                         MCPServer(d.name, d.url, "Auto-discovered from " \o d.source,
                                   "None", "None", TRUE), t),
                Tail(discovered), t)

RECURSIVE AutoRegister(_, _, _)
\* the auto-registration loop: a discovered name that has no descriptor is
\* registered, enabled
AutoRegister(srvs, discovered, t) ==
    IF discovered = <<>> THEN srvs
    ELSE LET d == Head(discovered)
             next == IF d.name \notin ServerNames(srvs)
                     THEN register(srvs,
                                   MCPServer(d.name, d.url, "Auto-discovered from " \o d.source,
                                             "None", "None", TRUE), t)
                     ELSE srvs
         IN  AutoRegister(next, Tail(discovered), t)

-----------------------------------------------------------------------------
(* Initial state: the module has been imported, mcp_registry = MCPRegistry() *)
(* and discovery_client = MCPDiscoveryClient() have been constructed.        *)

\* MCPRegistry.__init__ on a given registry file
Startup(file, catalog) == _register_defaults(_load_registry(file), catalog)

\* the environment variables the descriptors of the model name; "" is a
\* variable that is not set
EnvNames == {"GITHUB_TOKEN", "SVC_KEY"}

NoEnviron == [v \in EnvNames |-> ""]

\* the state after the import, on a given registry file, environment and
\* tool catalog
InitState(file, env, catalog) ==
    /\ environ = env
    /\ tool_catalog = catalog
    /\ pending = {}
    /\ registry_file = file
    /\ servers = Startup(file, catalog)
    /\ tool_cache = << >>
    /\ last_cache_refresh = << >>
    /\ service_available = "None"
    /\ last_check = NoTime
    /\ clock = 0
    /\ call = [op |-> "import"]
    /\ ret = [op |-> "import"]
    /\ http_log = << >>
    /\ last_fetch = << >>

InitWith(file) == InitState(file, NoEnviron, NoCatalog)

\* first start: there is no registry file yet
Init == InitWith(NoFile)

-----------------------------------------------------------------------------
(* Handlers.  Each action is one whole handler run at instant t. *)

\* MCPRegistry.register(server), called directly with a caller's descriptor
Register(server, t, io) ==
    /\ t > clock
    /\ servers' = register(servers, server, t)
    /\ registry_file' = _save_registry(servers', registry_file, io)
    /\ clock' = t
    /\ call' = [op |-> "register", name |-> server.name, server |-> server,
                io |-> io,
                existed |-> server.name \in ServerNames(servers),
                replaced_seen |-> get(servers, server.name).last_seen]
    /\ ret' = [op |-> "register", server |-> get(servers', server.name)]
    /\ http_log' = << >>
    /\ UNCHANGED <<tool_cache, last_cache_refresh, client_vars, last_fetch, environ,
                   tool_catalog, pending>>

\* POST /servers/register
register_server(request, resps, t, io) ==
    LET server == MCPServer(request.name, request.url, request.description,
                            request.auth_type, request.auth_token_env, TRUE)
        probe_result == probe_mcp_server(resps)
    IN  /\ probe_result.alive => t > clock
        /\ IF ~probe_result.alive
           THEN /\ ret' = [op |-> "register_server", success |-> FALSE,
                           probe_result |-> probe_result]
                /\ UNCHANGED <<servers, registry_file, clock>>
           ELSE /\ servers' = register(servers, server, t)
                /\ registry_file' = _save_registry(servers', registry_file, io)
                /\ clock' = t
                /\ ret' = [op |-> "register_server", success |-> TRUE,
                           server |-> model_dump(get(servers', request.name))]
        /\ call' = [op |-> "register_server", name |-> request.name,
                    url |-> request.url, io |-> io,
                    existed |-> request.name \in ServerNames(servers),
                    replaced_seen |-> get(servers, request.name).last_seen]
        /\ http_log' = ProbeLog(request.url, resps)
        /\ UNCHANGED <<tool_cache, last_cache_refresh, client_vars, last_fetch, environ,
                       tool_catalog>>

\* POST /servers/register run without another request in between
RegisterServer(request, resps, t, io) ==
    register_server(request, resps, t, io) /\ UNCHANGED pending

\* DELETE /servers/{name}: MCPRegistry.unregister(name) and its report
UnregisterServer(name, io) ==
    /\ servers' = unregister(servers, name)
    /\ tool_cache' = unregister_cache(servers, tool_cache, name)
    /\ registry_file' = IF name \in ServerNames(servers)
                        THEN _save_registry(servers', registry_file, io)
                        ELSE registry_file
    /\ call' = [op |-> "unregister_server", name |-> name, io |-> io,
                existed |-> name \in ServerNames(servers),
                cached |-> name \in DOMAIN tool_cache,
                repeated |-> /\ call.op = "unregister_server"
                             /\ call.name = name
                             /\ ret.success]
    /\ ret' = [op |-> "unregister_server", success |-> name \in ServerNames(servers)]
    /\ http_log' = << >>
    /\ UNCHANGED <<last_cache_refresh, client_vars, clock, last_fetch, environ,
                   tool_catalog, pending>>

\* GET /tools/{server_name}
ListServerTools(server_name, refresh, resps, t) ==
    LET server == get(servers, server_name)
        tools == fetch_mcp_tools(tool_cache, last_cache_refresh, server, refresh, resps, t)
        cached == FetchFromCache(last_cache_refresh, server_name, refresh, t)
    IN  /\ t >= clock
        /\ call' = [op |-> "list_server_tools", name |-> server_name,
                    refresh |-> refresh, cached |-> cached,
                    existed |-> server_name \in ServerNames(servers)]
        /\ IF server_name \notin ServerNames(servers)
           THEN /\ ret' = [op |-> "list_server_tools", fault |-> "HTTPException 404",
                           tools |-> PyNone, count |-> 0]
                /\ http_log' = << >>
                /\ UNCHANGED <<registry_vars, clock, last_fetch>>
           ELSE /\ clock' = t
                /\ http_log' = FetchLog(last_cache_refresh, server, refresh, resps, t)
                /\ IF cached
                   THEN UNCHANGED <<servers, tool_cache, last_cache_refresh, last_fetch>>
                   ELSE /\ last_fetch' = FunSet(last_fetch, server_name,
                                                [at |-> t, tools |-> tools])
                        /\ tool_cache' = FunSet(tool_cache, server_name, tools)
                        /\ last_cache_refresh' = FunSet(last_cache_refresh, server_name, t)
                        /\ servers' = update_tools(servers, server_name, tools, t)
                /\ ret' = IF HasLen(tools)
                          THEN [op |-> "list_server_tools", fault |-> "none",
                                tools |-> tools, count |-> PyLen(tools)]
                          ELSE [op |-> "list_server_tools", fault |-> "TypeError",
                                tools |-> PyNone, count |-> 0]
                /\ UNCHANGED registry_file
        /\ UNCHANGED <<client_vars, environ,
                       tool_catalog, pending>>

\* invoke_tool rejecting only a server that is not registered
InvokeRejectsUnknownOnly(srvs, name) ==
    IF name \notin ServerNames(srvs) THEN "not_found" ELSE "none"

\* the early returns of invoke_tool: "Server ... not found", "Server ... is
\* disabled", or none
InvokeRejection(srvs, name) ==
    IF name \notin ServerNames(srvs) THEN "not_found"
    ELSE IF ~get(srvs, name).enabled THEN "disabled"
    ELSE "none"

\* POST /invoke
InvokeTool(request, resps) ==
    LET server == get(servers, request.server)
        rejection == InvokeRejection(servers, request.server)
    IN  /\ call' = [op |-> "invoke_tool", name |-> request.server, tool |-> request.tool]
        /\ IF rejection # "none"
           THEN /\ ret' = [op |-> "invoke_tool", success |-> FALSE, kind |-> rejection]
                /\ http_log' = << >>
           ELSE /\ ret' = [op |-> "invoke_tool"] @@ invoke_mcp_tool(server, request.tool, resps)
                /\ http_log' = InvokeLog(server, request.tool, resps)
        /\ UNCHANGED <<registry_vars, client_vars, clock, last_fetch, environ,
                       tool_catalog, pending>>

\* is_available() not called: the client state as it is
NotAsked == [value |-> FALSE, available |-> service_available,
             last_check |-> last_check, sent |-> FALSE]

\* the GET /health request of is_available, when it sends one
HealthLog(avail, health) ==
    IF avail.sent
    THEN <<Request("GET", "discovery", "/health", Response(health, EmptyBody))>>
    ELSE << >>

\* the loop of list_servers without the `if not any(...)` test
LocalEntriesAll(srvs, all_servers) ==
    all_servers \o [i \in 1..Len(srvs) |->
                      Discovered(srvs[i].name, srvs[i].url, "local-registry")]

RECURSIVE LocalEntries(_, _)
\* the loop of list_servers over the local registry: a server whose name is
\* already in all_servers is skipped
LocalEntries(srvs, all_servers) ==
    IF srvs = <<>> THEN all_servers
    ELSE LocalEntries(Tail(srvs),
            IF \E i \in 1..Len(all_servers) : all_servers[i].name = Head(srvs).name
            THEN all_servers
            ELSE Append(all_servers,
                        Discovered(Head(srvs).name, Head(srvs).url, "local-registry")))

\* GET /servers?source=
ListServers(source, t, health1, services_resp, health2) ==
    LET a1 == IF source \in {"all", "discovery"}
              THEN is_available(FALSE, service_available, last_check, t, health1)
              ELSE NotAsked
        asked == source \in {"all", "discovery"} /\ a1.value
        result == get_services(services_resp)
        remote == IF asked
                  THEN [i \in 1..Len(result.services) |->
                          Discovered(result.services[i].name, result.services[i].endpoint,
                                     "mcp-discovery-service")]
                  ELSE << >>
        all_servers == IF source \in {"all", "local"}
                       THEN LocalEntries(servers, remote) ELSE remote
        a2 == is_available(FALSE, a1.available, a1.last_check, t, health2)
    IN  /\ t >= clock
        /\ clock' = t
        /\ service_available' = a2.available
        /\ last_check' = a2.last_check
        /\ call' = [op |-> "list_servers", source |-> source]
        /\ ret' = [op |-> "list_servers", servers |-> all_servers,
                   count |-> Len(all_servers),
                   discovery_service_available |-> a2.value]
        /\ http_log' = HealthLog(a1, health1)
                       \o (IF asked
                           THEN <<Request("GET", "discovery", "/services", services_resp)>>
                           ELSE << >>)
                       \o HealthLog(a2, health2)
        /\ UNCHANGED <<registry_vars, last_fetch, environ,
                       tool_catalog, pending>>

\* MCPDiscoverRequest
DiscoverRequest(use_discovery_service, scan_docker, scan_localhost, scan_ports) ==
    [use_discovery_service |-> use_discovery_service, scan_docker |-> scan_docker,
     scan_localhost |-> scan_localhost, scan_ports |-> scan_ports]

\* discover_servers without the `source = "local"` that ends the local scan
DiscoverSourceOfResult(scans, result) == result.source

\* the source discover_servers reports: `source = result.source` when entries
\* were taken from the discovery service, `source = "local"` after the local
\* scan
DiscoverSource(scans, result) == IF scans THEN "local" ELSE result.source

\* POST /discover.  health1, health2: the statuses of the health requests
\* is_available may send; refresh_resp: the answer to POST /services/refresh;
\* docker: the container runtime; world: the probe responses of each url
Discover(request, t, health1, refresh_resp, docker, world, health2, io) ==
    LET a1 == IF request.use_discovery_service
              THEN is_available(FALSE, service_available, last_check, t, health1)
              ELSE NotAsked
        result == refresh_services(refresh_resp)
        remote == RemoteDiscovered(request, a1, result)
        scans == remote = << >>
        targets == LocalTargets(request, docker)
        discovered == IF scans THEN ScanFound(targets, world) ELSE remote
        source == DiscoverSource(scans, result)
        a2 == is_available(FALSE, a1.available, a1.last_check, t, health2)
    IN  /\ t > clock
        /\ clock' = t
        /\ servers' = AutoRegister(servers, discovered, t)
        /\ registry_file' = IF servers' # servers
                            THEN _save_registry(servers', registry_file, io)
                            ELSE registry_file
        /\ service_available' = a2.available
        /\ last_check' = a2.last_check
        /\ call' = [op |-> "discover", request |-> request,
                    available |-> a1.value,
                    asked |-> AsksService(request, a1), scanned |-> scans,
                    known |-> {discovered[i].name : i \in 1..Len(discovered)}
                              \cap ServerNames(servers),
                    new |-> {discovered[i].name : i \in 1..Len(discovered)}
                            \ ServerNames(servers)]
        /\ ret' = [op |-> "discover", discovered |-> discovered,
                   count |-> Len(discovered), source |-> source,
                   discovery_service_available |-> a2.value,
                   registered_total |-> Len(servers')]
        /\ http_log' = HealthLog(a1, health1)
                       \o (IF AsksService(request, a1)
                           THEN <<Request("POST", "discovery", "/services/refresh",
                                          refresh_resp)>>
                           ELSE << >>)
                       \o (IF scans THEN ScanLog(targets, world) ELSE << >>)
                       \o HealthLog(a2, health2)
        /\ UNCHANGED <<tool_cache, last_cache_refresh, last_fetch, environ,
                       tool_catalog, pending>>

\* the registry state a run of fetch_mcp_tools works on, with the tools it
\* returned and the requests it sent
FetchState(srvs, cache, refreshed, fetched) ==
    [servers |-> srvs, tool_cache |-> cache, last_cache_refresh |-> refreshed,
     last_fetch |-> fetched, tools |-> PyList(<<>>), log |-> << >>]

\* fetch_mcp_tools(server, force_refresh) at instant t on the state st: the
\* state it leaves (update_tools unless served from the cache)
FetchEffect(st, server, force_refresh, resps, t) ==
    LET tools == fetch_mcp_tools(st.tool_cache, st.last_cache_refresh, server,
                                 force_refresh, resps, t)
        log == FetchLog(st.last_cache_refresh, server, force_refresh, resps, t)
    IN  IF FetchFromCache(st.last_cache_refresh, server.name, force_refresh, t)
        THEN [st EXCEPT !.tools = tools, !.log = log]
        ELSE [servers |-> update_tools(st.servers, server.name, tools, t),
              tool_cache |-> FunSet(st.tool_cache, server.name, tools),
              last_cache_refresh |-> FunSet(st.last_cache_refresh, server.name, t),
              last_fetch |-> FunSet(st.last_fetch, server.name,
                                    [at |-> t, tools |-> tools]),
              tools |-> tools, log |-> log]

\* fetch_server_tools: a disabled server is asked too
QueriesDisabled(server) == TRUE

\* fetch_server_tools: `if not server.enabled: return []`
Queries(server) == server.enabled

\* the list comprehension of fetch_server_tools: every tool tagged with its
\* server; iterating None, or unpacking an item of a value that is not a
\* list of tools, raises, which is caught and gives []
Tagged(server, tools) ==
    IF tools.kind = "list"
    THEN [i \in 1..Len(tools.items) |->
            [tool |-> tools.items[i], server |-> server.name, server_url |-> server.url]]
    ELSE << >>

RECURSIVE Flatten(_)
\* all_tools.extend(result) for every result
Flatten(results) ==
    IF results = << >> THEN << >> ELSE Head(results) \o Flatten(Tail(results))

RECURSIVE GatherUntilFailure(_)
\* gathering that gives up at the first server that contributed nothing
GatherUntilFailure(results) ==
    IF results = << >> \/ Head(results) = << >> THEN << >>
    ELSE Head(results) \o GatherUntilFailure(Tail(results))

\* asyncio.gather(..., return_exceptions=True) and the loop over its
\* results: every list is taken
Gather(results) == Flatten(results)

RECURSIVE FetchAll(_, _, _, _, _, _)
\* the fetch_server_tools coroutines of list_all_tools, one per server of
\* the snapshot `todo`, each on the state the previous ones left (each works
\* on its own server's entries); world[url] are the responses of the server
\* at url; acc.results collects the coroutines' results in order
FetchAll(todo, st, acc, refresh, world, t) ==
    IF todo = << >> THEN [st |-> st, results |-> acc.results, log |-> acc.log]
    ELSE LET server == Head(todo)
             after == FetchEffect(st, server, refresh, world[server.url], t)
         IN  IF ~Queries(server)
             THEN FetchAll(Tail(todo), st,
                           [results |-> Append(acc.results, << >>), log |-> acc.log],
                           refresh, world, t)
             ELSE FetchAll(Tail(todo), after,
                           [results |-> Append(acc.results, Tagged(server, after.tools)),
                            log |-> acc.log \o after.log],
                           refresh, world, t)

\* GET /tools?refresh=
ListAllTools(refresh, world, t) ==
    LET out == FetchAll(servers, FetchState(servers, tool_cache, last_cache_refresh,
                                            last_fetch),
                        [results |-> << >>, log |-> << >>], refresh, world, t)
        all_tools == Gather(out.results)
    IN  /\ t >= clock
        /\ clock' = t
        /\ servers' = out.st.servers
        /\ tool_cache' = out.st.tool_cache
        /\ last_cache_refresh' = out.st.last_cache_refresh
        /\ last_fetch' = out.st.last_fetch
        /\ call' = [op |-> "list_all_tools", refresh |-> refresh, before |-> servers,
                    fresh |-> {n \in ServerNames(servers) :
                                  FetchFromCache(last_cache_refresh, n, refresh, t)}]
        /\ ret' = [op |-> "list_all_tools", fault |-> "none", tools |-> all_tools,
                   count |-> Len(all_tools),
                   servers_queried |-> Cardinality({i \in 1..Len(servers) :
                                                       servers[i].enabled})]
        /\ http_log' = out.log
        /\ UNCHANGED <<registry_file, client_vars, environ,
                       tool_catalog, pending>>

RECURSIVE CheckServers(_, _, _)
\* the check_server coroutines of mcp_health and the loop over their
\* results: one entry per server, except that len() of a cached catalog
\* that is None raises, and a result that is an exception is skipped
CheckServers(todo, cache, world) ==
    IF todo = << >> THEN << >>
    ELSE LET server == Head(todo)
             tools == get_tools(cache, server.name)
         IN  (IF HasLen(tools)
              THEN <<[name |-> server.name,
                      alive |-> probe_mcp_server(world[server.url]).alive,
                      enabled |-> server.enabled, url |-> server.url,
                      last_seen |-> server.last_seen, tool_count |-> PyLen(tools)]>>
              ELSE << >>)
             \o CheckServers(Tail(todo), cache, world)

RECURSIVE CheckLog(_, _)
\* the requests the probes of check_server send
CheckLog(todo, world) ==
    IF todo = << >> THEN << >>
    ELSE ProbeLog(Head(todo).url, world[Head(todo).url]) \o CheckLog(Tail(todo), world)

\* GET /health.  health: the status of the discovery service's /health;
\* world[url]: the responses of the server at url to the liveness probe
Health(t, health, world) ==
    LET a == is_available(FALSE, service_available, last_check, t, health)
        health_results == CheckServers(servers, tool_cache, world)
        alive_count == Cardinality({i \in 1..Len(health_results) : health_results[i].alive})
    IN  /\ t >= clock
        /\ clock' = t
        /\ service_available' = a.available
        /\ last_check' = a.last_check
        /\ call' = [op |-> "health", available |-> a.value]
        /\ ret' = [op |-> "health", healthy |-> alive_count > 0 \/ a.value,
                   available |-> a.value, servers |-> health_results,
                   alive_count |-> alive_count, total_count |-> Len(servers)]
        /\ http_log' = HealthLog(a, health)
                       \o (IF a.value
                           THEN <<Request("GET", "discovery", "/health",
                                          Response(health, EmptyBody))>>
                           ELSE << >>)
                       \o CheckLog(servers, world)
        /\ UNCHANGED <<registry_vars, last_fetch, environ,
                       tool_catalog, pending>>

\* discovery_client.is_available(force_check) at instant t
IsAvailable(force_check, t, health) ==
    LET a == is_available(force_check, service_available, last_check, t, health)
    IN  /\ t >= clock
        /\ clock' = t
        /\ service_available' = a.available
        /\ last_check' = a.last_check
        /\ call' = [op |-> "is_available", force_check |-> force_check,
                    cached |-> service_available, checked |-> last_check]
        /\ ret' = [op |-> "is_available", value |-> a.value]
        /\ http_log' = HealthLog(a, health)
        /\ UNCHANGED <<registry_vars, last_fetch, environ,
                       tool_catalog, pending>>

\* discovery_client.get_services()
GetServices(resp) ==
    /\ call' = [op |-> "get_services"]
    /\ ret' = [op |-> "get_services", fault |-> "none", result |-> get_services(resp)]
    /\ http_log' = <<Request("GET", "discovery", "/services", resp)>>
    /\ UNCHANGED <<registry_vars, client_vars, clock, last_fetch, environ,
                   tool_catalog, pending>>

\* discovery_client.refresh_services(force=True)
RefreshServices(resp) ==
    /\ call' = [op |-> "refresh_services"]
    /\ ret' = [op |-> "refresh_services", fault |-> "none",
               result |-> refresh_services(resp)]
    /\ http_log' = <<Request("POST", "discovery", "/services/refresh", resp)>>
    /\ UNCHANGED <<registry_vars, client_vars, clock, last_fetch, environ,
                   tool_catalog, pending>>

\* the most coroutines suspended at the same time
MaxPending == 2

\* GET /tools/{server_name} up to its first await: the server is looked up
\* and fetch_mcp_tools, not served from the cache, builds its headers and
\* sends its first request; the coroutine keeps the server it looked up
BeginListServerTools(server_name, refresh, t) ==
    LET server == get(servers, server_name)
    IN  /\ t >= clock
        /\ Cardinality(pending) < MaxPending
        /\ server_name \in ServerNames(servers)
        /\ ~FetchFromCache(last_cache_refresh, server_name, refresh, t)
        /\ pending' = pending \cup {[op |-> "list_server_tools", name |-> server_name,
                                     url |-> server.url,
                                     headers |-> AuthHeaders(server)]}
        /\ clock' = t
        /\ call' = [op |-> "begin_list_server_tools", name |-> server_name]
        /\ ret' = [op |-> "begin_list_server_tools"]
        /\ http_log' = << >>
        /\ UNCHANGED <<registry_vars, client_vars, last_fetch, environ, tool_catalog>>

\* the rest of GET /tools/{server_name}: the candidates have answered (resps),
\* update_tools runs with the name the coroutine kept, and the handler returns
CompleteListServerTools(p, resps, t) ==
    LET found == FetchLoop(resps, 1, PyList(<<>>))
        tools == found.tools
    IN  /\ t >= clock
        /\ p \in pending
        /\ p.op = "list_server_tools"
        /\ pending' = pending \ {p}
        /\ clock' = t
        /\ tool_cache' = FunSet(tool_cache, p.name, tools)
        /\ last_cache_refresh' = FunSet(last_cache_refresh, p.name, t)
        /\ servers' = update_tools(servers, p.name, tools, t)
        /\ last_fetch' = FunSet(last_fetch, p.name, [at |-> t, tools |-> tools])
        /\ call' = [op |-> "complete_list_server_tools", name |-> p.name, url |-> p.url]
        /\ ret' = IF HasLen(tools)
                  THEN [op |-> "list_server_tools", fault |-> "none",
                        tools |-> tools, count |-> PyLen(tools)]
                  ELSE [op |-> "list_server_tools", fault |-> "TypeError",
                        tools |-> PyNone, count |-> 0]
        /\ http_log' = [i \in 1..found.attempts |->
                           Request("GET", p.url, tool_endpoints[i], resps[i])
                              @@ [headers |-> p.headers]]
        /\ UNCHANGED <<registry_file, client_vars, environ, tool_catalog>>

\* POST /servers/register up to its await: the descriptor is built and the
\* liveness probe sends its first request
BeginRegisterServer(request) ==
    /\ Cardinality(pending) < MaxPending
    /\ pending' = pending \cup {[op |-> "register_server", request |-> request]}
    /\ call' = [op |-> "begin_register_server", name |-> request.name]
    /\ ret' = [op |-> "begin_register_server"]
    /\ http_log' = << >>
    /\ UNCHANGED <<registry_vars, client_vars, clock, last_fetch, environ, tool_catalog>>

\* the rest of POST /servers/register: the probe has its answers (resps)
\* and, if alive, mcp_registry.register runs
CompleteRegisterServer(p, resps, t, io) ==
    /\ p \in pending
    /\ p.op = "register_server"
    /\ pending' = pending \ {p}
    /\ register_server(p.request, resps, t, io)

\* the process is restarted: the module is imported again on the registry
\* file as it is; caches and the client's state start empty;
\* call.unregistered is the name whose unregistration, written to the file,
\* was the last thing the process did ("" otherwise)
Restart ==
    /\ servers' = Startup(registry_file, tool_catalog)
    /\ tool_cache' = << >>
    /\ last_cache_refresh' = << >>
    /\ service_available' = "None"
    /\ last_check' = NoTime
    /\ call' = [op |-> "restart", before |-> servers,
                unregistered |-> IF /\ call.op = "unregister_server"
                                    /\ ret.success
                                    /\ call.io = "ok"
                                 THEN call.name ELSE ""]
    /\ ret' = [op |-> "restart"]
    /\ http_log' = << >>
    /\ last_fetch' = << >>
    /\ pending' = {}
    /\ UNCHANGED <<registry_file, clock, environ, tool_catalog>>

-----------------------------------------------------------------------------
(* Inputs: the small sets the handlers' arguments and the environment's   *)
(* answers are drawn from.                                                 *)

\* the latest instant of the registry specifications
MaxTime == 3

Instants == 1..MaxTime

IoOutcomes == {"ok", "error", "partial"}

JsonBody == Body("dict", Missing, Missing, 2)
TextBody == Body("malformed", Missing, Missing, 600)

\* a sequence of responses with the given statuses and a JSON object body
Answers(statuses) == [i \in 1..Len(statuses) |-> Response(statuses[i], JsonBody)]

\* liveness probes: alive at the first candidate, alive at a later one
\* (after a 404, a 500 and a refused connection), and not alive
ProbeAlive == Answers(<<200, 404, 404, 404, 404, 404>>)
ProbeLate == Answers(<<404, 500, NoResponse, 200, 404, 404>>)
ProbeDead == Answers(<<NoResponse, NoResponse, NoResponse, NoResponse, NoResponse, NoResponse>>)
ProbeNotFound == Answers(<<404, 404, 404, 404, 404, 404>>)

\* catalog fetches: a list at the first candidate, a {"tools": [...]} object
\* after a 404, and no answer at all
ToolsList(items) == Response(200, Body("list", PyList(items), Missing, 10))
ToolsDict(items) == Response(200, Body("dict", PyList(items), Missing, 10))
NotFound == Response(404, JsonBody)
Refused == Response(NoResponse, JsonBody)

FetchList(c) == <<ToolsList(c), NotFound, NotFound, NotFound, NotFound>>
FetchDict(c) == <<NotFound, ToolsDict(c), NotFound, NotFound, NotFound>>
FetchRefused == <<Refused, Refused, Refused, Refused, Refused>>

RegisterRequest(name, url) ==
    [name |-> name, url |-> url, description |-> "", auth_type |-> "None",
     auth_token_env |-> "None"]

-----------------------------------------------------------------------------
(* The registry: registration, unregistration, listing, tool catalogs *)

\* descriptors a caller of MCPRegistry.register supplies
CallerServers ==
    {MCPServer("svc-a", "http://localhost:9001", "", "None", "None", FALSE),
     MCPServer("github-mcp", "http://localhost:9001", "", "None", "None", TRUE)}

RegisterRequests ==
    {RegisterRequest("svc-a", u) : u \in {"http://localhost:9001", "http://localhost:9002"}}

RequestNames == {"svc-a", "github-mcp", "ghost"}

NextRegistry ==
    \/ \E server \in CallerServers, t \in Instants : Register(server, t, "ok")
    \/ \E request \in RegisterRequests,
          resps \in {ProbeAlive, ProbeLate, ProbeDead, ProbeNotFound},
          t \in Instants :
          RegisterServer(request, resps, t, "ok")
    \/ \E name \in RequestNames : UnregisterServer(name, "ok")
    \/ \E resps \in {FetchList(<<"echo">>), FetchRefused}, t \in Instants :
          ListServerTools("svc-a", TRUE, resps, t)
    \/ \E t \in Instants : ListServers("local", t, NoResponse, Refused, NoResponse)

SpecRegistry == Init /\ [][NextRegistry]_vars

-----------------------------------------------------------------------------
(* The tool cache and its time-to-live *)

\* instants on both sides of the TTL: 299 s and 300 s after the first
CacheInstants == {1, cache_ttl, cache_ttl + 1}

NextCache ==
    \/ \E resps \in {ProbeAlive, ProbeDead}, t \in CacheInstants :
          RegisterServer(RegisterRequest("svc-a", "http://localhost:9001"), resps, t, "ok")
    \/ \E name \in {"svc-a", "github-mcp"} : UnregisterServer(name, "ok")
    \/ \E name \in {"svc-a", "github-mcp"}, refresh \in BOOLEAN,
          resps \in {FetchList(<<"echo">>), FetchDict(<<"echo", "add">>), FetchRefused},
          t \in CacheInstants :
          ListServerTools(name, refresh, resps, t)

SpecCache == Init /\ [][NextCache]_vars

-----------------------------------------------------------------------------
(* The probe engine: liveness probe, catalog fetch, tool invocation *)

Ok(status) == Response(status, JsonBody)
Garbled(status) == Response(status, TextBody)

\* sequences of n responses: every choice for the first candidates, the
\* same answer from all the later ones
Sequences(n, free, options, rest) ==
    {[i \in 1..n |-> IF i <= free THEN f[i] ELSE r] :
        f \in [1..free -> options], r \in rest}

\* the number of leading candidates whose answers are enumerated in full
FreeCandidates == 2

InvokeOptions == {Refused, NotFound, Ok(200), Ok(201), Garbled(200), Garbled(500)}

InvokeAnswers == Sequences(5, FreeCandidates, InvokeOptions, {NotFound, Ok(200)})

ProbeOptions == {Refused, NotFound, Ok(200), Ok(500)}

ProbeAnswers == Sequences(6, FreeCandidates, ProbeOptions, {NotFound, Ok(200)})

FetchOptions == {Refused, NotFound, Ok(500), ToolsList(<<"echo">>), ToolsList(<<>>),
                 Garbled(200)}

FetchAnswers == Sequences(5, FreeCandidates, FetchOptions, {NotFound, ToolsDict(<<"add">>)})

InvokeRequest(server, tool) == [server |-> server, tool |-> tool]

NextProbe ==
    \/ \E resps \in ProbeAnswers :
          RegisterServer(RegisterRequest("svc-a", "http://localhost:9001"), resps, 1, "ok")
    \/ \E resps \in FetchAnswers : ListServerTools("github-mcp", TRUE, resps, 1)
    \/ \E server \in {"github-mcp", "svc-a"}, resps \in InvokeAnswers :
          InvokeTool(InvokeRequest(server, "echo"), resps)

SpecProbe == Init /\ [][NextProbe]_vars

-----------------------------------------------------------------------------
(* Discovery: the discovery service and the local scanner *)

\* instants on both sides of the availability re-check interval
DiscoverInstants == {1, check_interval, check_interval + 1}

DiscoverRequests ==
    {DiscoverRequest(TRUE, TRUE, TRUE, <<8000, 3000>>),
     DiscoverRequest(TRUE, FALSE, FALSE, <<8000>>),
     DiscoverRequest(FALSE, FALSE, TRUE, <<8000>>),
     DiscoverRequest(FALSE, TRUE, FALSE, << >>)}

HealthAnswers == {200, NoResponse}

Fs == MCPService("fs", "http://fs:7000", NoPort)
Github == MCPService("github-mcp", "", 11004)

\* services whose endpoint is a socket path, and with neither endpoint nor port
Sock == MCPService("sock", "/var/run/mcp.sock", NoPort)
Bare == MCPService("bare", "", NoPort)

\* answers of POST /services/refresh: two services with total and source,
\* two services without a url, a service with total 0, no services, a
\* listing that does not validate, and no answer
RefreshAnswers ==
    {Response(200, ServiceListing(TRUE, <<Fs, Github>>, TRUE, 2, TRUE, "docker")),
     Response(200, ServiceListing(TRUE, <<Sock, Bare>>, TRUE, 2, TRUE, "docker")),
     Response(200, ServiceListing(TRUE, <<Fs>>, TRUE, 0, FALSE, "")),
     Response(200, ServiceListing(TRUE, << >>, FALSE, 0, FALSE, "")),
     Response(200, ServiceListing(FALSE, <<Fs>>, TRUE, 1, TRUE, "docker")),
     Response(NoResponse, ServiceListing(FALSE, << >>, FALSE, 0, FALSE, ""))}

DockerDown == [ok |-> FALSE, containers |-> << >>]
DockerUp == [ok |-> TRUE,
             containers |-> <<Container("mcp-fs", FALSE, <<8000, 9001>>),
                              Container("redis", FALSE, <<6379>>),
                              Container("github-mcp", TRUE, <<9001>>)>>]

ScannedUrls == {LocalUrl(port) : port \in {8000, 3000, 9001, 6379}}

\* which of the scanned urls answer the liveness probe
Worlds ==
    {[u \in ScannedUrls |-> IF u \in alive THEN ProbeLate ELSE ProbeDead] :
        alive \in {{LocalUrl(8000)}, ScannedUrls}}

NextDiscover ==
    \/ \E request \in DiscoverRequests, t \in DiscoverInstants,
          health \in HealthAnswers, refresh_resp \in RefreshAnswers,
          docker \in {DockerDown, DockerUp}, world \in Worlds :
          Discover(request, t, health, refresh_resp, docker, world, health, "ok")
    \/ \E name \in {"github-mcp", "fs"} : UnregisterServer(name, "ok")

SpecDiscover == Init /\ [][NextDiscover]_vars

-----------------------------------------------------------------------------
(* Claims about the registry *)

\* the step is a call of MCPRegistry.register for a name that was registered
Reregisters ==
    /\ \/ call'.op = "register"
       \/ call'.op = "register_server" /\ ret'.success
    /\ call'.name \in ServerNames(servers)

\* C1: register with a name that is already registered replaces the entry
\* in place: listAll() keeps its size and its order of names, get(name) is
\* the descriptor supplied (stamped with the time of the call), and its
\* lastSeen is later than the lastSeen of the entry it replaced.
C1_RegisterOverwritesInPlace ==
    [][Reregisters =>
        /\ Len(servers') = Len(servers)
        /\ \A i \in 1..Len(servers) :
              /\ servers'[i].name = servers[i].name
              /\ servers[i].name # call'.name => servers'[i] = servers[i]
        /\ get(servers', call'.name).last_seen = clock'
        /\ get(servers', call'.name).last_seen > get(servers, call'.name).last_seen
        /\ call'.op = "register" =>
              /\ get(servers', call'.name) = [call'.server EXCEPT !.last_seen = clock']
              /\ ret'.server = get(servers', call'.name)
        /\ call'.op = "register_server" =>
              /\ get(servers', call'.name).url = call'.url
              /\ get(servers', call'.name).enabled
      ]_vars

\* C1 witness: a descriptor that had been seen before was replaced by
\* register while another descriptor was registered too
C1_Witness ==
    /\ call.op = "register"
    /\ call.existed
    /\ call.replaced_seen # NoTime
    /\ Len(servers) = 2

\* C2: unregister(name) returns true exactly when name was registered; then
\* the name is gone from the registry and from the tool cache, and an
\* immediately following unregister(name) returns false and changes nothing.
C2_UnregisterOnce ==
    [][call'.op = "unregister_server" =>
        /\ ret'.success = (call'.name \in ServerNames(servers))
        /\ ret'.success =>
              /\ call'.name \notin ServerNames(servers')
              /\ call'.name \notin DOMAIN tool_cache'
              /\ get_tools(tool_cache', call'.name) = PyList(<<>>)
        /\ (call.op = "unregister_server" /\ call.name = call'.name /\ ret.success) =>
              /\ ~ret'.success
              /\ UNCHANGED registry_vars
      ]_vars

\* C2 witness: the second of two successive unregistrations of a name
C2_Witness ==
    /\ call.op = "unregister_server"
    /\ call.repeated
    /\ ~ret.success

\* C3: the gateway registers a descriptor exactly when some candidate of the
\* liveness probe answered 200 (it gives up only after all six candidates); the registered name is then listed by
\* listServers(source=local) and stays registered until it is unregistered;
\* when no candidate answers 200 the result is success=false with the probe
\* result, and registry, tool cache and durable file are unchanged.
C3_RegisterOnlyIfAlive ==
    [][/\ call'.op = "register_server" =>
            /\ ret'.success = (\E i \in 1..Len(http_log') : http_log'[i].status = 200)
            /\ Len(http_log') = Len(endpoints_to_try) \/ ret'.success
            /\ ret'.success =>
                  /\ call'.name \in ServerNames(servers')
                  /\ get(servers', call'.name).url = call'.url
                  /\ registry_file'.exists
                  /\ \E i \in 1..Len(registry_file'.servers) :
                        registry_file'.servers[i].name = call'.name
            /\ ~ret'.success =>
                  /\ ~ret'.probe_result.alive
                  /\ UNCHANGED registry_vars
       /\ (call'.op = "list_servers" /\ call'.source = "local") =>
            {ret'.servers[i].name : i \in 1..Len(ret'.servers)} = ServerNames(servers)
       /\ \A n \in ServerNames(servers) :
            n \notin ServerNames(servers') =>
                call'.op = "unregister_server" /\ call'.name = n
      ]_vars

\* C3 witness: a registration was refused for want of a live candidate
\* while an earlier registration through the gateway is still in place
C3_Witness ==
    /\ call.op = "register_server"
    /\ ~ret.success
    /\ "svc-a" \in ServerNames(servers)
    /\ get(servers, "svc-a").enabled
    /\ registry_file.exists

-----------------------------------------------------------------------------
(* Claims about the tool cache *)

\* the step is a tool fetch without refresh of a registered service, made
\* less than the TTL after a fetch of that service
FetchesAgainWithinTtl ==
    /\ call'.op = "list_server_tools"
    /\ call'.existed
    /\ ~call'.refresh
    /\ call'.name \in DOMAIN last_fetch
    /\ clock' - last_fetch[call'.name].at < cache_ttl

\* C4: a tool fetch without refresh made less than the TTL after a previous
\* fetch of the same registered service sends no HTTP request and returns
\* exactly the tool list the previous fetch returned.
C4_SecondFetchServedFromCache ==
    [][FetchesAgainWithinTtl =>
        /\ http_log' = << >>
        /\ ret'.fault = "none"
        /\ ret'.tools = last_fetch[call'.name].tools
      ]_vars

-----------------------------------------------------------------------------
(* Claims about the probe engine *)

\* the step is a tool invocation that reached invoke_mcp_tool
Invokes == call'.op = "invoke_tool" /\ http_log' # << >>

\* the requests of the step went to the candidates in their declared order
InDeclaredOrder(candidates) ==
    /\ Len(http_log') <= Len(candidates)
    /\ \A i \in 1..Len(http_log') : http_log'[i].path = candidates[i]

\* C5: a tool invocation tries the candidates in the declared order and stops
\* at the first candidate that answers 200/201: no request is sent to a later
\* candidate, the number of requests is that candidate's position, and the
\* result is success=true with that candidate's body.
C5_InvokeStopsAtFirstSuccess ==
    [][Invokes =>
        /\ InDeclaredOrder(invoke_endpoints(call'.tool))
        /\ \A i \in 1..Len(http_log') :
              http_log'[i].status \in {200, 201} =>
                  /\ Len(http_log') = i
                  /\ ret'.success
                  /\ ret'.body = http_log'[i].body
      ]_vars

\* C6: a candidate of a tool invocation that answers with a status other than
\* 200, 201 or 404 ends the invocation: it is the last request, and the result
\* is success=false with that status, the truncated body, the server and the
\* tool name.
C6_InvokeFailureStatusIsTerminal ==
    [][Invokes =>
        \A i \in 1..Len(http_log') :
            http_log'[i].status \notin {NoResponse, 200, 201, 404} =>
                /\ Len(http_log') = i
                /\ ~ret'.success
                /\ ret'.kind = "http_error"
                /\ ret'.status = http_log'[i].status
                /\ ret'.body.len = Min(http_log'[i].body.len, TextLimit)
                /\ ret'.server = call'.name
                /\ ret'.tool = call'.tool
      ]_vars

\* C6 witness: the second candidate answered 500 with a body longer than the
\* limit, after a candidate that answered 404
C6_Witness ==
    /\ call.op = "invoke_tool"
    /\ Len(http_log) = 2
    /\ http_log[1].status = 404
    /\ http_log[2].status = 500
    /\ http_log[2].body.len > TextLimit
    /\ ret.body.len = TextLimit

\* the step ran a probe: a liveness probe, a catalog fetch or an invocation
Probes ==
    /\ call'.op \in {"register_server", "list_server_tools", "invoke_tool"}
    /\ http_log' # << >>

\* the number of candidates of the probe the step ran
Candidates ==
    IF call'.op = "register_server" THEN Len(endpoints_to_try)
    ELSE IF call'.op = "list_server_tools" THEN Len(tool_endpoints)
    ELSE NumInvokeEndpoints

\* the step's probe reports failure
ReportsFailure ==
    IF call'.op = "list_server_tools" THEN ret'.tools = PyList(<<>>) ELSE ~ret'.success

\* C7 as claimed: in every use of the probe engine a 404 means the next
\* candidate is tried, and any other failure status ends the whole probe: no
\* further candidate is attempted and the probe reports failure.
C7_AnyProbeStopsOnFailureStatus ==
    [][Probes =>
        \A i \in 1..Len(http_log') :
            /\ (http_log'[i].status = 404 /\ i < Candidates) => Len(http_log') > i
            /\ http_log'[i].status \notin {NoResponse, 200, 201, 404} =>
                  Len(http_log') = i /\ ReportsFailure
      ]_vars

\* C7 as amended: a 404 means the next candidate is tried in every use; a
\* failure status other than 404 ends a tool invocation only.  The liveness
\* probe goes on after every answer that is not 200 and the catalog fetch
\* after every answer that is not a 200 with a non-empty catalog, whatever
\* the status, until a candidate succeeds or the candidates run out.
C7_OnlyInvokeStopsOnFailureStatus ==
    [][Probes =>
        \A i \in 1..Len(http_log') :
            /\ (http_log'[i].status = 404 /\ i < Candidates) => Len(http_log') > i
            /\ (http_log'[i].status \notin {NoResponse, 200, 201, 404}) =>
                  IF call'.op = "invoke_tool"
                  THEN Len(http_log') = i /\ ~ret'.success
                       /\ ret'.status = http_log'[i].status
                  ELSE i < Candidates => Len(http_log') > i
            /\ (call'.op # "invoke_tool" /\ i = Len(http_log') /\ i < Candidates) =>
                  http_log'[i].status = 200 /\ ~ReportsFailure
      ]_vars

\* C7 witness: a liveness probe went on after a candidate answered 500 and
\* found the service alive at a later candidate
C7_Witness ==
    /\ call.op = "register_server"
    /\ ret.success
    /\ \E i \in 1..Len(http_log) : http_log[i].status = 500 /\ i < Len(http_log)

-----------------------------------------------------------------------------
(* Claims about discovery *)

\* the names of the entries of a discover() result, in order
DiscoveredNames(discovered) == [i \in 1..Len(discovered) |-> discovered[i].name]

\* the step's requests to the discovery service's refresh endpoint
RefreshRequests == {i \in 1..Len(http_log') : http_log'[i].path = "/services/refresh"}

\* the step's liveness probes of local urls
LocalProbes == {i \in 1..Len(http_log') : http_log'[i].url # "discovery"}

\* C8: when is_available() reports the discovery service unavailable during
\* discover(), or the request switches its use off, the result's source is
\* "local", the service is not asked for its services, and every discovered
\* entry was found by the local scanner (Docker scan or port scan).
C8_FallbackSourceIsLocal ==
    [][(call'.op = "discover"
        /\ (~call'.request.use_discovery_service \/ ~call'.available)) =>
            /\ ret'.source = "local"
            /\ RefreshRequests = {}
            /\ \A i \in 1..Len(ret'.discovered) :
                  /\ ret'.discovered[i].source \in {"docker", "port_scan"}
                  /\ \E j \in LocalProbes :
                        /\ http_log'[j].url = ret'.discovered[i].url
                        /\ http_log'[j].status = 200
      ]_vars

\* C8 witness: a discover() that wanted the discovery service, found it
\* unavailable, and returned entries of the local scanner
C8_Witness ==
    /\ call.op = "discover"
    /\ call.request.use_discovery_service
    /\ ~call.available
    /\ ret.count > 0
    /\ ret.source = "local"

\* C9 as claimed: when discover() asks the discovery service and the forced
\* refresh yields any services, the result is exactly those services, its
\* source is the source the service reported, and no local probe is sent;
\* the local scanner runs only when the service was not asked (switched off
\* or unavailable) or the refresh yielded zero services.
C9_ServiceResultsReplaceLocalScan ==
    [][call'.op = "discover" =>
        \A i \in 1..Len(http_log') :
            http_log'[i].path = "/services/refresh" =>
                LET result == refresh_services(Response(http_log'[i].status,
                                                        http_log'[i].body))
                IN  /\ result.services # << >> =>
                          /\ DiscoveredNames(ret'.discovered)
                                = DiscoveredNames(result.services)
                          /\ ret'.source = result.source
                          /\ LocalProbes = {}
                    /\ call'.scanned => result.services = << >>
      ]_vars

\* a discover() whose refresh yielded services and whose result is those
\* services
C9_ServiceResultsUsed ==
    /\ call.op = "discover"
    /\ call.asked
    /\ ~call.scanned
    /\ ret.count > 0

\* C10: discover() never overwrites a descriptor: every descriptor that was
\* registered before the pass is unchanged, in its place, and every
\* discovered name that was not registered before is registered afterwards,
\* enabled, with the url of the first entry discovered under that name.
C10_DiscoverNeverOverwrites ==
    [][call'.op = "discover" =>
        /\ Len(servers') >= Len(servers)
        /\ SubSeq(servers', 1, Len(servers)) = servers
        /\ \A i \in 1..Len(ret'.discovered) :
              LET d == ret'.discovered[i]
              IN  /\ d.name \in ServerNames(servers')
                  /\ d.name \notin ServerNames(servers) =>
                        /\ get(servers', d.name).enabled
                        /\ get(servers', d.name).last_seen = clock'
                        /\ \E j \in 1..i :
                              /\ ret'.discovered[j].name = d.name
                              /\ get(servers', d.name).url = ret'.discovered[j].url
                              /\ \A k \in 1..(j - 1) : ret'.discovered[k].name # d.name
        /\ ret'.registered_total = Len(servers')
      ]_vars

\* C10 witness: a discover() that found both a name that was registered and
\* a name that was not
C10_Witness ==
    /\ call.op = "discover"
    /\ call.known # {}
    /\ call.new # {}
    /\ ret.registered_total > 1

-----------------------------------------------------------------------------
(* The gateway: invocation, bulk tool listing, server listing, health *)

GatewayInstants == {1, 2}

UrlGithub == "http://localhost:11003"
UrlA == "http://localhost:9001"
UrlB == "http://localhost:9002"

\* descriptors registered directly: svc-a disabled or enabled, svc-b enabled
GatewayServers ==
    {MCPServer("svc-a", UrlA, "", "None", "None", FALSE),
     MCPServer("svc-a", UrlA, "", "None", "None", TRUE),
     MCPServer("svc-b", UrlB, "", "None", "None", TRUE)}

\* every candidate answers 200 with {"tools": null}
FetchNull == [i \in 1..Len(tool_endpoints) |->
                 Response(200, Body("dict", PyNone, Missing, 14))]

\* what the three servers answer to a catalog fetch: all answer; svc-a times
\* out; github-mcp times out; svc-b answers {"tools": null}
ToolWorlds ==
    {(UrlGithub :> FetchList(<<"search">>)) @@ (UrlA :> FetchList(<<"echo">>))
        @@ (UrlB :> FetchDict(<<"add", "sub">>)),
     (UrlGithub :> FetchList(<<"search">>)) @@ (UrlA :> FetchRefused)
        @@ (UrlB :> FetchDict(<<"add", "sub">>)),
     (UrlGithub :> FetchRefused) @@ (UrlA :> FetchList(<<"echo">>))
        @@ (UrlB :> FetchDict(<<"add", "sub">>)),
     (UrlGithub :> FetchList(<<"search">>)) @@ (UrlA :> FetchList(<<"echo">>))
        @@ (UrlB :> FetchNull)}

\* what the three servers answer to a liveness probe
ProbeWorlds ==
    {[u \in {UrlGithub, UrlA, UrlB} |-> IF u \in alive THEN ProbeLate ELSE ProbeDead] :
        alive \in {{}, {UrlB}, {UrlGithub, UrlA, UrlB}}}

\* answers of GET /services: github-mcp and fs, or no answer
ServicesAnswers ==
    {Response(200, ServiceListing(TRUE, <<Fs, Github>>, TRUE, 2, TRUE, "docker")),
     Response(NoResponse, ServiceListing(FALSE, << >>, FALSE, 0, FALSE, ""))}

NextGateway ==
    \/ \E server \in GatewayServers, t \in GatewayInstants : Register(server, t, "ok")
    \/ \E server \in {"svc-a", "ghost", "github-mcp"},
          resps \in {Answers(<<200, 200, 200, 200, 200>>),
                     Answers(<<404, 404, 404, 404, 404>>)} :
          InvokeTool(InvokeRequest(server, "echo"), resps)
    \/ \E refresh \in BOOLEAN, world \in ToolWorlds, t \in GatewayInstants :
          ListAllTools(refresh, world, t)
    \/ \E source \in {"all", "discovery"}, t \in GatewayInstants,
          health \in HealthAnswers, services_resp \in ServicesAnswers :
          ListServers(source, t, health, services_resp, health)
    \/ \E t \in GatewayInstants, health \in HealthAnswers, world \in ProbeWorlds :
          Health(t, health, world)

SpecGateway == Init /\ [][NextGateway]_vars

-----------------------------------------------------------------------------
(* Claims about the gateway *)

\* C11: invoke_tool for a name that is not registered, or that is registered
\* but disabled, returns success=false with the error naming the reason
\* (not found / disabled), sends no request, and leaves the registry as it
\* was.
C11_InvokeRejectsUnknownAndDisabled ==
    [][(call'.op = "invoke_tool"
        /\ (call'.name \notin ServerNames(servers)
            \/ ~get(servers, call'.name).enabled)) =>
            /\ ~ret'.success
            /\ ret'.kind = (IF call'.name \notin ServerNames(servers)
                            THEN "not_found" ELSE "disabled")
            /\ http_log' = << >>
            /\ servers' = servers
      ]_vars

\* C11 witness: an invocation on a registered, disabled server was rejected
C11_Witness ==
    /\ call.op = "invoke_tool"
    /\ call.name \in ServerNames(servers)
    /\ ~get(servers, call.name).enabled
    /\ ret.kind = "disabled"
    /\ http_log = << >>

\* the step's requests to the server at url
RequestsTo(url) == {i \in 1..Len(http_log') : http_log'[i].url = url}

\* the catalog a logged response carries, as fetch_mcp_tools reads it
CatalogOf(exchange) ==
    ToolsAfter(PyList(<<>>), Response(exchange.status, exchange.body))

\* the logged response is a 200 with a non-empty list of tools
CarriesCatalog(exchange) ==
    /\ exchange.status = 200
    /\ exchange.body.shape \in {"list", "dict"}
    /\ CatalogOf(exchange).kind = "list"
    /\ CatalogOf(exchange).items # << >>

\* C12: list_all_tools is a best-effort aggregation.  It never faults; every
\* enabled server that was asked over the network and answered a catalog
\* has each tool of that catalog in the result, tagged with its name and
\* url; a server none of whose candidates answered 200 (timed out, refused)
\* contributes no tool; and neither depends on what the other servers did.
C12_ListAllToolsIsBestEffort ==
    [][call'.op = "list_all_tools" =>
        /\ ret'.fault = "none"
        /\ ret'.count = Len(ret'.tools)
        /\ \A k \in 1..Len(call'.before) :
              LET s == call'.before[k]
              IN  (s.enabled /\ s.name \notin call'.fresh) =>
                    /\ RequestsTo(s.url) # {}
                    /\ \A i \in RequestsTo(s.url) :
                          CarriesCatalog(http_log'[i]) =>
                             \A j \in 1..Len(CatalogOf(http_log'[i]).items) :
                                \E x \in 1..Len(ret'.tools) :
                                   ret'.tools[x] =
                                      [tool |-> CatalogOf(http_log'[i]).items[j],
                                       server |-> s.name, server_url |-> s.url]
                    /\ (\A i \in RequestsTo(s.url) : http_log'[i].status # 200) =>
                          \A x \in 1..Len(ret'.tools) : ret'.tools[x].server # s.name
      ]_vars

\* C12 witness: three enabled servers were asked, svc-a timed out at every
\* candidate, and the tools of github-mcp and svc-b were returned
C12_Witness ==
    /\ call.op = "list_all_tools"
    /\ Len(call.before) = 3
    /\ \A k \in 1..3 : call.before[k].enabled
    /\ call.fresh = {}
    /\ \E i \in 1..Len(http_log) : http_log[i].url = UrlA
    /\ \A i \in 1..Len(http_log) :
          http_log[i].url = UrlA => http_log[i].status = NoResponse
    /\ ret.count = 3
    /\ {ret.tools[x].server : x \in 1..Len(ret.tools)} = {"github-mcp", "svc-b"}

\* C13: a server whose enabled flag is false is left out of list_all_tools:
\* it is sent no request and no returned tool is tagged with it, yet it
\* stays in the registry, unchanged and in its place.
C13_DisabledServerIsSkipped ==
    [][call'.op = "list_all_tools" =>
        \A k \in 1..Len(call'.before) :
            LET s == call'.before[k]
            IN  ~s.enabled =>
                  /\ RequestsTo(s.url) = {}
                  /\ \A x \in 1..Len(ret'.tools) : ret'.tools[x].server # s.name
                  /\ Len(servers') = Len(servers)
                  /\ servers'[k] = s
                  /\ get(servers', s.name) = s
      ]_vars

\* C13 witness: a bulk listing that asked the enabled servers and returned
\* their tools while a disabled server was registered
C13_Witness ==
    /\ call.op = "list_all_tools"
    /\ \E k \in 1..Len(call.before) : ~call.before[k].enabled
    /\ \E k \in 1..Len(servers) : ~servers[k].enabled /\ servers[k].name = "svc-a"
    /\ ret.count > 0
    /\ ret.servers_queried = Len(servers) - 1

\* the services the discovery service returned to the step's GET /services,
\* none when it was not asked
RemoteServices ==
    IF \E i \in 1..Len(http_log') : http_log'[i].path = "/services"
    THEN LET i == CHOOSE i \in 1..Len(http_log') : http_log'[i].path = "/services"
         IN  get_services(Response(http_log'[i].status, http_log'[i].body)).services
    ELSE << >>

\* the entries of the step's result with the given name and source
EntriesOf(name, source) ==
    {x \in 1..Len(ret'.servers) :
        ret'.servers[x].name = name /\ ret'.servers[x].source = source}

\* C14: in list_servers(source="all") the entries of the discovery service
\* come first, one per service; a local descriptor whose name is the name of
\* one of them is omitted, every other local descriptor is listed exactly
\* once with its url, and count is the number of entries returned.
C14_ListServersMergesByName ==
    [][(call'.op = "list_servers" /\ call'.source = "all") =>
        LET remote == RemoteServices
            remote_names == {remote[i].name : i \in 1..Len(remote)}
        IN  /\ ret'.count = Len(ret'.servers)
            /\ \A i \in 1..Len(remote) :
                  /\ ret'.servers[i].name = remote[i].name
                  /\ ret'.servers[i].source = "mcp-discovery-service"
            /\ \A k \in 1..Len(servers) :
                  IF servers[k].name \in remote_names
                  THEN /\ EntriesOf(servers[k].name, "local-registry") = {}
                       /\ Cardinality(EntriesOf(servers[k].name,
                                                "mcp-discovery-service")) = 1
                  ELSE /\ Cardinality(EntriesOf(servers[k].name, "local-registry")) = 1
                       /\ \A x \in EntriesOf(servers[k].name, "local-registry") :
                             ret'.servers[x].url = servers[k].url
            /\ ret'.count = Len(remote)
                  + Cardinality({k \in 1..Len(servers) : servers[k].name \notin remote_names})
      ]_vars

\* C14 witness: github-mcp was known to the discovery service and to the
\* local registry, svc-b to the local registry only
C14_Witness ==
    /\ call.op = "list_servers"
    /\ call.source = "all"
    /\ {"github-mcp", "svc-b"} \subseteq ServerNames(servers)
    /\ \E x \in 1..Len(ret.servers) :
          ret.servers[x].name = "github-mcp"
          /\ ret.servers[x].source = "mcp-discovery-service"
    /\ \E x \in 1..Len(ret.servers) :
          ret.servers[x].name = "svc-b" /\ ret.servers[x].source = "local-registry"
    /\ ret.count = Len(servers) + 1

\* C15 as claimed: mcp_health reports healthy exactly when the discovery
\* service is available or at least one registered server answered the
\* liveness probe as alive, and its report has one entry for every
\* registered server, enabled or not, in the registry's order.
C15_HealthReportsEveryServer ==
    [][call'.op = "health" =>
        /\ ret'.healthy <=>
              \/ call'.available
              \/ \E k \in 1..Len(servers) :
                    \E i \in RequestsTo(servers[k].url) : http_log'[i].status = 200
        /\ Len(ret'.servers) = Len(servers)
        /\ \A k \in 1..Len(servers) :
              /\ ret'.servers[k].name = servers[k].name
              /\ ret'.servers[k].enabled = servers[k].enabled
              /\ ret'.servers[k].alive <=>
                    \E i \in RequestsTo(servers[k].url) : http_log'[i].status = 200
        /\ ret'.total_count = Len(servers)
      ]_vars

\* a health report with an entry for each of three servers of which only
\* one is alive, the discovery service being unavailable
C15_PartialHealth ==
    /\ call.op = "health"
    /\ ~call.available
    /\ Len(ret.servers) = 3
    /\ ret.alive_count = 1
    /\ ret.healthy

-----------------------------------------------------------------------------
(* The discovery client on its own *)

\* statuses of the discovery service's /health: up, failing, no answer
ClientHealthAnswers == {200, 500, NoResponse}

\* answers of GET /services and POST /services/refresh: a listing, a
\* listing without total and source, a body that does not validate, a 500
\* carrying a listing, and no answer
ClientAnswers ==
    {Response(200, ServiceListing(TRUE, <<Fs, Github>>, TRUE, 2, TRUE, "docker")),
     Response(200, ServiceListing(TRUE, <<Fs>>, FALSE, 0, FALSE, "")),
     Response(200, ServiceListing(FALSE, <<Fs>>, TRUE, 1, TRUE, "docker")),
     Response(500, ServiceListing(TRUE, <<Fs>>, TRUE, 1, TRUE, "docker")),
     Response(NoResponse, ServiceListing(FALSE, << >>, FALSE, 0, FALSE, ""))}

NextClient ==
    \/ \E force_check \in BOOLEAN, t \in DiscoverInstants, health \in ClientHealthAnswers :
          IsAvailable(force_check, t, health)
    \/ \E resp \in ClientAnswers : GetServices(resp)
    \/ \E resp \in ClientAnswers : RefreshServices(resp)

SpecClient == Init /\ [][NextClient]_vars

-----------------------------------------------------------------------------
(* Claims about the discovery client *)

\* the previous check of availability was made less than check_interval ago
CheckedRecently ==
    /\ call'.checked # NoTime
    /\ clock' - call'.checked < check_interval

\* C16: is_available(force_check=False) sends no request and returns the
\* cached answer when the previous check was made less than 30 s ago; with
\* force_check=True, before any check, or 30 s or more after the previous
\* check it sends exactly one GET /health, returns whether the status was
\* 200 (false on a transport failure or any other status), and caches that
\* answer with the time of the check.
C16_AvailabilityCachedFor30s ==
    [][call'.op = "is_available" =>
        IF ~call'.force_check /\ CheckedRecently
        THEN /\ http_log' = << >>
             /\ ret'.value = (call'.cached = "True")
             /\ UNCHANGED client_vars
        ELSE /\ Len(http_log') = 1
             /\ http_log'[1].method = "GET" /\ http_log'[1].path = "/health"
             /\ ret'.value = (http_log'[1].status = 200)
             /\ service_available' = (IF ret'.value THEN "True" ELSE "False")
             /\ last_check' = clock'
      ]_vars

\* C16 witness: an unforced call 29 s after a check that found the service
\* down was answered from the cache
C16_Witness ==
    /\ call.op = "is_available"
    /\ ~call.force_check
    /\ call.checked # NoTime
    /\ clock - call.checked = check_interval - 1
    /\ http_log = << >>
    /\ ~ret.value

\* C17: get_services and refresh_services never raise, and on a transport
\* failure, a status other than 200 or a body that cannot be used they
\* return no services, total 0 and source "error".
C17_ClientDegradesToErrorResult ==
    [][call'.op \in {"get_services", "refresh_services"} =>
        /\ ret'.fault = "none"
        /\ Len(http_log') = 1
        /\ (http_log'[1].status # 200 \/ ~http_log'[1].body.valid) =>
              /\ ret'.result.services = << >>
              /\ ret'.result.total = 0
              /\ ret'.result.source = "error"
      ]_vars

\* C17 witness: refresh_services got a 500 whose body carried a listing and
\* returned the error result
C17_Witness ==
    /\ call.op = "refresh_services"
    /\ http_log[1].status = 500
    /\ http_log[1].body.valid
    /\ http_log[1].body.services # << >>
    /\ ret.result = ErrorResult

-----------------------------------------------------------------------------
(* Claims about the durable store *)

\* the registry file holds exactly the descriptors of the registry
StoreMatches(file, srvs) ==
    /\ file.exists
    /\ file.servers = [i \in 1..Len(srvs) |-> model_dump(srvs[i])]

\* C18 as claimed: every operation that changes a descriptor of the
\* in-memory registry (register, unregister, auto-registration, seeding, the
\* update of a descriptor's tools and last_seen after a catalog fetch) leaves
\* the registry file, absent a write failure, equal to the registry.
C18_EveryMutationIsPersisted ==
    [][servers' # servers => StoreMatches(registry_file', servers')]_vars

\* a registration or unregistration left the registry file equal to the
\* registry
C18_RegistrationPersisted ==
    /\ call.op \in {"register", "register_server", "unregister_server"}
    /\ Len(servers) > 1
    /\ StoreMatches(registry_file, servers)

-----------------------------------------------------------------------------
(* Persistence across restarts *)

PersistInstants == {1, 2}

\* catalog fetches: a list of tools, or {"tools": null} from every candidate
PersistFetches == {FetchList(<<"echo">>), FetchNull}

\* a github-mcp descriptor of the operator's own: another url, no auth
GithubCustom == MCPServer("github-mcp", "http://github.internal:8080", "", "None", "None",
                          FALSE)

NextPersist ==
    \/ \E server \in GatewayServers \cup {GithubCustom}, t \in PersistInstants :
          Register(server, t, "ok")
    \/ \E name \in {"svc-a", "github-mcp"} : UnregisterServer(name, "ok")
    \/ \E name \in {"svc-a", "svc-b"}, resps \in PersistFetches, t \in PersistInstants :
          ListServerTools(name, TRUE, resps, t)
    \/ Restart

SpecPersist == Init /\ [][NextPersist]_vars

\* C19 as claimed: every descriptor that was registered and written to the
\* registry file is in the registry after a restart, with the same name,
\* url, auth type, auth environment-variable name and enabled flag.
C19_RegistrySurvivesRestart ==
    [][call'.op = "restart" =>
        \A i \in 1..Len(registry_file.servers) :
            LET d == registry_file.servers[i]
            IN  /\ d.name \in ServerNames(servers')
                /\ get(servers', d.name).url = d.url
                /\ get(servers', d.name).auth_type = d.auth_type
                /\ get(servers', d.name).auth_token_env = d.auth_token_env
                /\ get(servers', d.name).enabled = d.enabled
      ]_vars

\* a restart after which a disabled descriptor written before it is back
C19_DescriptorReloaded ==
    /\ call.op = "restart"
    /\ "svc-a" \in ServerNames(servers)
    /\ ~get(servers, "svc-a").enabled
    /\ get(servers, "svc-a").last_seen # NoTime
    /\ StoreMatches(registry_file, servers)

-----------------------------------------------------------------------------
(* Claims about descriptors *)

\* the urls of the model that are not syntactically valid URLs: a socket
\* path, and a port that is not a number
SyntacticallyValidUrl(url) == url \notin {"/var/run/mcp.sock", LocalUrl(NoPort)}

\* C20 as claimed: every descriptor in the registry has a syntactically
\* valid url, whichever path stored it.
C20_EveryEndpointIsValidUrl ==
    \A i \in 1..Len(servers) : SyntacticallyValidUrl(servers[i].url)

-----------------------------------------------------------------------------
(* Secrets: the auth tokens of the environment *)

\* the environments of the model: GITHUB_TOKEN unset or one of two tokens,
\* SVC_KEY unset or set
Environs ==
    {[v \in EnvNames |-> IF v = "GITHUB_TOKEN" THEN g ELSE k] :
        g \in {"", "ghp-one", "ghp-two"}, k \in {"", "key-one"}}

\* a server that authenticates with an API key
SvcKey == MCPServer("svc-k", UrlA, "", "api_key", "SVC_KEY", TRUE)

InitSecret == \E env \in Environs : InitState(NoFile, env, NoCatalog)

NextSecret ==
    \/ \E t \in GatewayInstants : Register(SvcKey, t, "ok")
    \/ \E name \in {"github-mcp", "svc-k"},
          resps \in {FetchList(<<"echo">>), FetchRefused}, t \in GatewayInstants :
          ListServerTools(name, TRUE, resps, t)
    \/ \E server \in {"github-mcp", "svc-k"},
          resps \in {Answers(<<404, 200, 200, 200, 200>>)} :
          InvokeTool(InvokeRequest(server, "echo"), resps)
    \/ \E name \in {"svc-k"} : UnregisterServer(name, "ok")

SpecSecret == InitSecret /\ [][NextSecret]_vars

\* the values the environment holds, and the header values made of them
SecretValues ==
    UNION {{environ[v], "Bearer " \o environ[v]} : v \in {w \in EnvNames : environ[w] # ""}}

\* the strings a descriptor, in memory or dumped, holds
DescriptorStrings(d) ==
    {d.name, d.url, d.description, d.auth_type, d.auth_token_env}
        \cup {d.tools.items[j] : j \in 1..Len(d.tools.items)}

\* C21: no secret is stored.  In every reachable state no field of a
\* descriptor in memory or in the registry file, and no cached tool, is a
\* token of the environment (or the header made of it); descriptors name the
\* environment variable only; requests carry the token in their auth header
\* and nowhere else.
C21_NoSecretStored ==
    /\ \A i \in 1..Len(servers) :
          /\ DescriptorStrings(servers[i]) \cap SecretValues = {}
          /\ servers[i].auth_token_env \in EnvNames \cup {"None"}
    /\ \A i \in 1..Len(registry_file.servers) :
          DescriptorStrings(registry_file.servers[i]) \cap SecretValues = {}
    /\ \A n \in DOMAIN tool_cache :
          {tool_cache[n].items[j] : j \in 1..Len(tool_cache[n].items)}
              \cap SecretValues = {}
    /\ \A n \in DOMAIN last_fetch :
          {last_fetch[n].tools.items[j] : j \in 1..Len(last_fetch[n].tools.items)}
              \cap SecretValues = {}
    /\ \A i \in 1..Len(http_log) :
          {http_log[i].url, http_log[i].path, http_log[i].method} \cap SecretValues = {}

\* C21 witness: a request carried the bearer token of the environment while
\* the registry file and the tool cache were populated
C21_Witness ==
    /\ \E i \in 1..Len(http_log) :
          /\ http_log[i].headers.name = "Authorization"
          /\ http_log[i].headers.value = "Bearer " \o environ["GITHUB_TOKEN"]
    /\ environ["GITHUB_TOKEN"] = "ghp-two"
    /\ registry_file.exists
    /\ "github-mcp" \in DOMAIN tool_cache

-----------------------------------------------------------------------------
(* get_mcp_tools_context *)

\* tools[:20] and params[:5]
ToolLimit == 20
ParamLimit == 5

\* dict.get(key, default) on a tool; d.has are the keys the dict holds
DictGet(d, key, default) == IF key \in d.has THEN d[key] ELSE default

\* the slice without its limit
ShownAll(seq, limit) == seq

\* seq[:limit]
Shown(seq, limit) == SubSeq(seq, 1, Min(limit, Len(seq)))

\* f"  - `{param_name}` ({param_type}, {required})"
ParamLine(param) ==
    [kind |-> "param", name |-> param.name, type |-> param.type,
     required |-> IF param.required THEN "required" ELSE "optional"]

\* f"- **{name}** ({server}): {description}"
ToolLine(entry) ==
    [kind |-> "tool",
     name |-> DictGet(entry.tool, "name", DictGet(entry.tool, "ref", "unknown")),
     server |-> entry.server,
     description |-> DictGet(entry.tool, "description", "No description")]

RECURSIVE ContextLines(_)
\* the loop over tools[:20]: one line per tool, then one per parameter of
\* params[:5]
ContextLines(entries) ==
    IF entries = << >> THEN << >>
    ELSE LET params == DictGet(Head(entries).tool, "parameters", << >>)
             shown == Shown(params, ParamLimit)
         IN  <<ToolLine(Head(entries))>>
                \o [j \in 1..Len(shown) |-> ParamLine(shown[j])]
                \o ContextLines(Tail(entries))

ContextHeader == <<[kind |-> "text", text |-> "## Available MCP Tools"],
                   [kind |-> "text",
                    text |-> "You have access to the following tools via the MCP protocol:"],
                   [kind |-> "text", text |-> ""]>>

ContextFooter == <<[kind |-> "text", text |-> ""],
                   [kind |-> "text",
                    text |-> "To use a tool, ask me to invoke it with the required parameters."]>>

\* the lines joined by "\n"; << >> stands for the empty string
RenderContext(tools) ==
    IF tools = << >> THEN << >>
    ELSE ContextHeader \o ContextLines(Shown(tools, ToolLimit)) \o ContextFooter

\* get_mcp_tools_context(): list_all_tools(refresh=False), then the rendering
BuildPromptContext(world, t) ==
    LET out == FetchAll(servers, FetchState(servers, tool_cache, last_cache_refresh,
                                            last_fetch),
                        [results |-> << >>, log |-> << >>], FALSE, world, t)
        tools == Gather(out.results)
    IN  /\ t >= clock
        /\ clock' = t
        /\ servers' = out.st.servers
        /\ tool_cache' = out.st.tool_cache
        /\ last_cache_refresh' = out.st.last_cache_refresh
        /\ last_fetch' = out.st.last_fetch
        /\ call' = [op |-> "get_mcp_tools_context", known |-> tools]
        /\ ret' = [op |-> "get_mcp_tools_context", fault |-> "none",
                   text |-> RenderContext(tools)]
        /\ http_log' = out.log
        /\ UNCHANGED <<registry_file, client_vars, environ,
                       tool_catalog, pending>>

\* tool and parameter names of the catalogs of the model
ToolNames == <<"t01", "t02", "t03", "t04", "t05", "t06", "t07", "t08", "t09", "t10",
               "t11", "t12", "t13", "t14", "t15", "t16", "t17", "t18", "t19", "t20",
               "t21", "t22">>
ParamNames == <<"p1", "p2", "p3", "p4", "p5", "p6", "p7">>

\* the i-th tool of a catalog, with k parameters; every third tool has no
\* description, every fifth no parameters key, and the fourth is named by "ref"
ToolDict(i, k) ==
    [has |-> ({"name", "description", "parameters"}
                \ (IF i % 3 = 0 THEN {"description"} ELSE {}))
                \ (IF i % 5 = 0 THEN {"parameters"} ELSE {}),
     name |-> ToolNames[i], ref |-> "", description |-> "does it",
     parameters |-> [j \in 1..k |-> [name |-> ParamNames[j], type |-> "string",
                                     required |-> j = 1]]]

RefTool ==
    [has |-> {"ref"}, name |-> "", ref |-> "catalog-tool", description |-> "",
     parameters |-> << >>]

\* tools from..to, the i-th with i % 8 parameters
Catalog(from, to) == [i \in 1..(to - from + 1) |-> ToolDict(from + i - 1, (from + i - 1) % 8)]

\* what github-mcp and svc-a answer to a catalog fetch: 22 tools on one
\* server; 19 and 3 tools; 19 tools and a tool named by "ref"; the 20th and
\* 21st tools on the second server; no answer from either; an empty list
ContextWorlds ==
    {(UrlGithub :> FetchList(Catalog(1, 22))) @@ (UrlA :> FetchRefused),
     (UrlGithub :> FetchList(Catalog(1, 19))) @@ (UrlA :> FetchDict(Catalog(20, 22))),
     (UrlGithub :> FetchList(Catalog(1, 6))) @@ (UrlA :> FetchDict(<<RefTool>>)),
     (UrlGithub :> FetchRefused) @@ (UrlA :> FetchList(Catalog(5, 7))),
     (UrlGithub :> FetchRefused) @@ (UrlA :> FetchRefused),
     (UrlGithub :> FetchList(<< >>)) @@ (UrlA :> FetchNull)}

ContextInstants == {1, 2, cache_ttl + 2}

NextContext ==
    \/ \E enabled \in BOOLEAN, t \in ContextInstants :
          Register(MCPServer("svc-a", UrlA, "", "None", "None", enabled), t, "ok")
    \/ \E world \in ContextWorlds, t \in ContextInstants : BuildPromptContext(world, t)

SpecContext == Init /\ [][NextContext]_vars

\* the positions of the tool lines of a rendering, and the i-th of them
ToolPositions(lines) == {j \in 1..Len(lines) : lines[j].kind = "tool"}
ToolPosition(lines, i) ==
    CHOOSE j \in ToolPositions(lines) :
        Cardinality({k \in ToolPositions(lines) : k <= j}) = i

\* the names of the parameter lines that follow the i-th tool line
ParamsShown(lines, i) ==
    LET from == ToolPosition(lines, i)
        to == IF i < Cardinality(ToolPositions(lines))
              THEN ToolPosition(lines, i + 1) - 1 ELSE Len(lines)
        idx == {j \in (from + 1)..to : lines[j].kind = "param"}
    IN  [k \in 1..Cardinality(idx) |->
            lines[CHOOSE j \in idx : Cardinality({m \in idx : m <= j}) = k].name]

\* the parameters a known tool declares
DeclaredParams(entry) ==
    IF "parameters" \in entry.tool.has THEN entry.tool.parameters ELSE << >>

\* C22: get_mcp_tools_context returns the empty string exactly when the
\* listing of the enabled servers' tools is empty; otherwise the rendering
\* has one tool line for each of the first min(20, n) known tools, in order,
\* each followed by the lines of its first min(5, k) parameters, in order.
C22_ContextRendersFirstTwenty ==
    [][call'.op = "get_mcp_tools_context" =>
         LET known == call'.known
             lines == ret'.text
             n == Len(known)
         IN  /\ (lines = << >>) <=> (n = 0)
             /\ Cardinality(ToolPositions(lines)) = Min(20, n)
             /\ \A i \in 1..Min(20, n) :
                   /\ lines[ToolPosition(lines, i)].server = known[i].server
                   /\ lines[ToolPosition(lines, i)].name
                        = (IF "name" \in known[i].tool.has THEN known[i].tool.name
                           ELSE known[i].tool.ref)
                   /\ LET declared == DeclaredParams(known[i])
                      IN  ParamsShown(lines, i)
                            = [k \in 1..Min(5, Len(declared)) |-> declared[k].name]
             /\ \A i \in 1..Len(known) : Queries(get(servers, known[i].server))]_vars

\* C22 witness: 22 tools were known, of two servers, and 20 were rendered,
\* one of them with five of its seven parameters
C22_Witness ==
    /\ call.op = "get_mcp_tools_context"
    /\ Len(call.known) = 22
    /\ {call.known[i].server : i \in 1..22} = {"github-mcp", "svc-a"}
    /\ Cardinality(ToolPositions(ret.text)) = 20
    /\ Len(DeclaredParams(call.known[7])) = 7
    /\ Len(ParamsShown(ret.text, 7)) = 5

\* C22 witness of the empty rendering
C22_EmptyWitness ==
    /\ call.op = "get_mcp_tools_context"
    /\ ret.text = << >>
    /\ http_log # << >>

-----------------------------------------------------------------------------
(* Claims about candidate exhaustion *)

\* every candidate the step tried failed with a 404 or without a response
\* (transport error or timeout)
EveryCandidateFailed ==
    \A i \in 1..Len(http_log') : http_log'[i].status \in {404, NoResponse}

\* the step returned the normal negative result of its probe
NegativeResult ==
    IF call'.op = "register_server"
    THEN ~ret'.success /\ ~ret'.probe_result.alive
    ELSE IF call'.op = "list_server_tools"
    THEN ret'.fault = "none" /\ ret'.tools = PyList(<<>>) /\ ret'.count = 0
    ELSE ~ret'.success /\ ret'.kind = "could_not_invoke"

\* C23: every probe ends with a value after at most one attempt per
\* candidate (6 for liveness, 5 for the catalog fetch, 5 for invocation),
\* each candidate path tried once; when every candidate failed with a 404 or
\* without a response the probe tried them all and returned the normal
\* negative result: alive=false, an empty tool list, or success=false with
\* the "could not invoke" error.  It never raises.
C23_ExhaustionIsNegativeResult ==
    [][Probes =>
         /\ Len(http_log') <= Candidates
         /\ Candidates = (IF call'.op = "register_server" THEN 6 ELSE 5)
         /\ \A i, j \in 1..Len(http_log') :
               http_log'[i].path = http_log'[j].path => i = j
         /\ EveryCandidateFailed => Len(http_log') = Candidates /\ NegativeResult
      ]_vars

\* C23 witness: an invocation whose five candidates failed, some with a 404
\* and some without a response, returned the "could not invoke" error
C23_Witness ==
    /\ call.op = "invoke_tool"
    /\ Len(http_log) = 5
    /\ {http_log[i].status : i \in 1..5} = {404, NoResponse}
    /\ ret.kind = "could_not_invoke"

\* liveness and catalog fetch ran out of candidates too
C23_ProbeExhausted ==
    /\ call.op = "register_server"
    /\ Len(http_log) = 6
    /\ ~ret.success

C23_FetchExhausted ==
    /\ call.op = "list_server_tools"
    /\ Len(http_log) = 5
    /\ \A i \in 1..5 : http_log[i].status \in {404, NoResponse}
    /\ ret.tools = PyList(<<>>)

-----------------------------------------------------------------------------
(* Claims about last_seen and the tool cache *)

\* every descriptor keeps its enabled flag and its last_seen over the step
DescriptorsUntouched ==
    /\ Len(servers') = Len(servers)
    /\ \A i \in 1..Len(servers) :
          /\ servers'[i].name = servers[i].name
          /\ servers'[i].enabled = servers[i].enabled
          /\ servers'[i].last_seen = servers[i].last_seen

\* C24: the read-only queries (list_servers, list_all_tools,
\* list_server_tools, health, get_mcp_tools_context) leave the enabled flag
\* and last_seen of every descriptor unchanged.
C24_ReadOnlyQueriesLeaveDescriptors ==
    [][call'.op \in {"list_servers", "list_all_tools", "list_server_tools",
                     "health", "get_mcp_tools_context"}
         => DescriptorsUntouched]_vars

\* what does hold: list_servers and health never touch a descriptor, a
\* listing of tools touches none when it sends no request, and no query
\* changes an enabled flag
C24_QueriesWithoutFetchLeaveDescriptors ==
    [][/\ (call'.op \in {"list_servers", "health"}
           \/ (call'.op = "list_all_tools" /\ http_log' = << >>))
             => DescriptorsUntouched
       /\ call'.op \in {"list_servers", "health", "list_all_tools"}
             => /\ Len(servers') = Len(servers)
                /\ \A i \in 1..Len(servers) : servers'[i].enabled = servers[i].enabled
      ]_vars

\* a tool listing asked the server at url and no candidate answered 200
FetchFailedAt(url) ==
    /\ RequestsTo(url) # {}
    /\ \A i \in RequestsTo(url) : http_log'[i].status # 200

\* a catalog fetch in which every candidate failed does not advance last_seen
FailedFetchKeepsLastSeen ==
    call'.op = "list_all_tools" =>
        \A i \in 1..Len(servers) :
           FetchFailedAt(servers[i].url) => servers'[i].last_seen = servers[i].last_seen

\* a successful liveness probe of a registered server, as health makes it,
\* advances last_seen to the time of the probe
AliveProbeAdvancesLastSeen ==
    call'.op = "health" =>
        \A i \in 1..Len(servers) :
           (\E j \in RequestsTo(servers[i].url) : http_log'[j].status = 200)
              => servers'[i].last_seen = clock'

\* C25: last_seen is the time of the most recent registration or successful
\* probe: a fetch whose every candidate failed does not advance it, and a
\* successful liveness probe of a registered server does.
C25_LastSeenIsLastSuccessfulContact ==
    [][FailedFetchKeepsLastSeen /\ AliveProbeAdvancesLastSeen]_vars

\* each half of C25 on its own
C25_FailedFetchKeepsLastSeen == [][FailedFetchKeepsLastSeen]_vars
C25_AliveProbeAdvancesLastSeen == [][AliveProbeAdvancesLastSeen]_vars

\* the step ran a catalog fetch for a registered server over the network and
\* no candidate answered 200
FetchFailed ==
    /\ call'.op = "list_server_tools"
    /\ http_log' # << >>
    /\ \A i \in 1..Len(http_log') : http_log'[i].status # 200

\* C26: a fetch in which every candidate failed does not make the catalog
\* fresh: a cache that was not valid before such a fetch is not valid after
\* it, so that the next listing without refresh goes to the network again.
C26_FailedFetchLeavesCacheStale ==
    [][(FetchFailed /\ ~is_cache_valid(last_cache_refresh, call'.name, clock'))
         => ~is_cache_valid(last_cache_refresh', call'.name, clock')]_vars

\* the consequence: a listing without refresh right after a failed first
\* fetch sent no request and returned the empty list
C26_FailedFetchServedFromCache ==
    /\ call.op = "list_server_tools"
    /\ ~call.refresh
    /\ call.cached
    /\ http_log = << >>
    /\ ret.tools = PyList(<<>>)
    /\ call.name \in DOMAIN last_fetch
    /\ last_fetch[call.name].tools = PyList(<<>>)

\* the step put a catalog for name into the cache (update_tools ran)
Puts(name) ==
    /\ call'.op = "list_server_tools"
    /\ call'.name = name
    /\ call'.existed
    /\ ~call'.cached

\* the step unregistered name, which drops its cached catalog
Drops(name) == call'.op = "unregister_server" /\ call'.name = name /\ call'.existed

\* C27: the tool cache.  A put replaces the cached catalog of the name and
\* resets its freshness clock; is_cache_valid(name) at an instant is true
\* iff a put for the name happened strictly less than 300 s before it (false
\* if there never was one); get_tools returns the last catalog put, empty if
\* none, whatever its age: no step other than a put for the name (or its
\* unregistration) changes what get_tools returns or its freshness clock.
C27_ToolCacheContract ==
    [][\A name \in {"github-mcp", "svc-a"} :
         /\ Puts(name) =>
               /\ get_tools(tool_cache', name) = last_fetch'[name].tools
               /\ last_fetch'[name].at = clock'
               /\ is_cache_valid(last_cache_refresh', name, clock')
         /\ \A t \in {u \in CacheInstants \cup {cache_ttl + 2} : u >= clock'} :
               is_cache_valid(last_cache_refresh', name, t)
                  <=> (name \in DOMAIN last_fetch' /\ t - last_fetch'[name].at < 300)
         /\ (~Puts(name) /\ ~Drops(name)) =>
               /\ get_tools(tool_cache', name) = get_tools(tool_cache, name)
               /\ (name \in DOMAIN last_fetch') = (name \in DOMAIN last_fetch)
               /\ name \in DOMAIN last_fetch => last_fetch'[name] = last_fetch[name]
         /\ name \notin DOMAIN last_fetch' => get_tools(tool_cache', name) = PyList(<<>>)
      ]_vars

\* C27 witness: a catalog put at t=1 is still what get_tools returns at
\* t=301, 300 s later, when it is no longer fresh
C27_Witness ==
    /\ "github-mcp" \in DOMAIN last_fetch
    /\ last_fetch["github-mcp"].at = 1
    /\ clock = cache_ttl + 1
    /\ get_tools(tool_cache, "github-mcp") = PyList(<<"echo">>)
    /\ ~is_cache_valid(last_cache_refresh, "github-mcp", clock)
    /\ is_cache_valid(last_cache_refresh, "github-mcp", cache_ttl)

\* C28: a refresh that does not succeed never deletes the cached catalog: if
\* a server has a non-empty cached catalog and a later fetch (stale cache or
\* refresh=true) fails on every candidate, get_tools still returns the
\* catalog cached before.
C28_FailedRefreshKeepsCatalog ==
    [][(FetchFailed /\ Truthy(get_tools(tool_cache, call'.name)))
         => get_tools(tool_cache', call'.name) = get_tools(tool_cache, call'.name)]_vars

\* the catalog is lost to a failed fetch of a stale cache as well as to a
\* failed refresh
C28_StaleFetchKeepsCatalog ==
    [][(FetchFailed /\ ~call'.refresh /\ Truthy(get_tools(tool_cache, call'.name)))
         => get_tools(tool_cache', call'.name) = get_tools(tool_cache, call'.name)]_vars

-----------------------------------------------------------------------------
(* Claims about startup *)

\* C29: when initialisation completes, at the import and at every restart,
\* github-mcp is in the registry; a github-mcp descriptor loaded from the
\* registry file is kept as loaded, and the default descriptor is seeded only
\* when none was loaded.
C29_DefaultSeededNeverOverwrites ==
    [][/\ call.op \in {"import", "restart"} => "github-mcp" \in ServerNames(servers)
       /\ call'.op = "restart" =>
             LET loaded == _load_registry(registry_file)
             IN  /\ "github-mcp" \in ServerNames(servers')
                 /\ \A i \in 1..Len(loaded) : servers'[i] = loaded[i]
                 /\ get(servers', "github-mcp")
                      = (IF "github-mcp" \in ServerNames(loaded)
                         THEN get(loaded, "github-mcp") ELSE GithubMcp)
      ]_vars

\* C29 witness: after a restart github-mcp is the descriptor the operator
\* registered, as the file holds it, not the default
C29_Witness ==
    /\ call.op = "restart"
    /\ get(servers, "github-mcp").url = GithubCustom.url
    /\ ~get(servers, "github-mcp").enabled
    /\ get(servers, "github-mcp") # GithubMcp
    /\ \E i \in 1..Len(registry_file.servers) :
          /\ registry_file.servers[i].name = "github-mcp"
          /\ registry_file.servers[i].url = GithubCustom.url

\* github-mcp unregistered, and seeded again by the restart
C29_SeededAgain ==
    /\ call.op = "restart"
    /\ "github-mcp" \notin ServerNames(call.before)
    /\ get(servers, "github-mcp") = GithubMcp

-----------------------------------------------------------------------------
(* The static tool catalog *)

\* a catalog that declares the tool-servers fs and mcp-fs, a toolset that is
\* not a tool-server, one without a ref, and github-mcp, which is seeded
\* before the catalog is read
DeclaredCatalog ==
    ToolCatalog(<<Toolset("mcp", TRUE, "fs"), Toolset("script", TRUE, "lint"),
                  Toolset("mcp", FALSE, ""), Toolset("mcp", TRUE, "github-mcp"),
                  Toolset("mcp", TRUE, "mcp-fs")>>)

\* a catalog file that yaml.safe_load does not read
BrokenCatalog == [exists |-> TRUE, valid |-> FALSE, toolsets |-> << >>]

InitCatalog ==
    \E catalog \in {DeclaredCatalog, BrokenCatalog} : InitState(NoFile, NoEnviron, catalog)

NextCatalog ==
    \/ \E request \in {DiscoverRequest(TRUE, TRUE, FALSE, << >>),
                       DiscoverRequest(FALSE, TRUE, TRUE, <<3000>>)},
          t \in GatewayInstants, health \in HealthAnswers,
          refresh_resp \in {Response(200, ServiceListing(TRUE, <<Fs, Github>>, TRUE, 2,
                                                         TRUE, "docker"))},
          docker \in {DockerDown, DockerUp}, world \in Worlds :
          Discover(request, t, health, refresh_resp, docker, world, health, "ok")
    \/ \E name \in {"fs", "mcp-fs"} : UnregisterServer(name, "ok")
    \/ \E t \in GatewayInstants :
          Register(MCPServer("fs", "http://fs:7000", "", "None", "None", TRUE), t, "ok")
    \/ Restart

SpecCatalog == InitCatalog /\ [][NextCatalog]_vars

\* the tool-servers the catalog declares
DeclaredRefs ==
    IF tool_catalog.exists /\ tool_catalog.valid
    THEN {tool_catalog.toolsets[i].ref :
            i \in {j \in 1..Len(tool_catalog.toolsets) :
                      /\ tool_catalog.toolsets[j].type = "mcp"
                      /\ tool_catalog.toolsets[j].has_ref}}
    ELSE {}

\* the descriptor is a placeholder of the catalog: disabled, at the url the
\* catalog loader gives it
IsPlaceholder(d) ==
    ~d.enabled /\ d.url = "http://localhost:11003/tools/" \o d.name

\* after a start every declared tool-server is registered, and one that was
\* not registered before the catalog was read is a disabled placeholder
PlaceholdersRegistered ==
    call'.op = "restart" =>
        \A ref \in DeclaredRefs :
           /\ ref \in ServerNames(servers')
           /\ ref \notin ServerNames(_load_registry(registry_file)) \cup {"github-mcp"}
                 => IsPlaceholder(get(servers', ref))

\* a placeholder whose name a discovery pass found alive is enabled by it
DiscoveryEnablesPlaceholder ==
    call'.op = "discover" =>
        \A i \in 1..Len(ret'.discovered) :
           LET name == ret'.discovered[i].name
           IN  (name \in ServerNames(servers) /\ IsPlaceholder(get(servers, name)))
                  => get(servers', name).enabled

\* C30: a tool-server declared in the static catalog and not already
\* registered is registered with enabled=false, and it stays a disabled
\* placeholder only until it is discovered alive: a discovery pass that finds
\* a live service with that name enables the descriptor.
C30_PlaceholderEnabledOnceDiscovered ==
    [][PlaceholdersRegistered /\ DiscoveryEnablesPlaceholder]_vars

\* each half of C30 on its own
C30_PlaceholdersRegistered == [][PlaceholdersRegistered]_vars
C30_DiscoveryEnablesPlaceholder == [][DiscoveryEnablesPlaceholder]_vars

\* placeholders are there after the import, and after a restart that found
\* the file without them
C30_PlaceholdersSeeded ==
    /\ call.op = "restart"
    /\ DeclaredRefs = {"fs", "github-mcp", "mcp-fs"}
    /\ IsPlaceholder(get(servers, "mcp-fs"))
    /\ "fs" \in ServerNames(servers) /\ get(servers, "fs").enabled

-----------------------------------------------------------------------------
(* Loading the registry file *)

\* a file entry that is not a valid descriptor: its tools are null
InvalidEntry(server) == [model_dump(server) EXCEPT !.tools = PyNone]

StoredA == MCPServer("svc-a", UrlA, "", "None", "None", TRUE)
StoredB == MCPServer("svc-b", UrlB, "", "None", "None", TRUE)

\* a file with the given entries
StoredFile(entries) == [exists |-> TRUE, parses |-> TRUE, servers |-> entries]

\* a file that json.load does not read
CorruptFile == [exists |-> TRUE, parses |-> FALSE, servers |-> <<>>]

\* the registry files a start finds: none, an unreadable one, one with two
\* valid entries, and files with an invalid entry first, last, or alone
StoredFiles ==
    {NoFile, CorruptFile,
     StoredFile(<<model_dump(StoredA), model_dump(StoredB)>>),
     StoredFile(<<InvalidEntry(StoredA), model_dump(StoredB)>>),
     StoredFile(<<model_dump(StoredA), InvalidEntry(StoredB)>>),
     StoredFile(<<InvalidEntry(StoredB)>>)}

InitLoad == \E file \in StoredFiles : InitState(file, NoEnviron, NoCatalog)

NextLoad ==
    \/ \E server \in GatewayServers, t \in PersistInstants, io \in IoOutcomes :
          Register(server, t, io)
    \/ \E name \in {"svc-a", "svc-b", "github-mcp"}, io \in IoOutcomes :
          UnregisterServer(name, io)
    \/ Restart

SpecLoad == InitLoad /\ [][NextLoad]_vars

\* the load of the file fails: it is missing, unreadable, or holds an entry
\* that is not a valid descriptor
LoadFails(file) ==
    \/ ~file.exists
    \/ ~file.parses
    \/ \E i \in 1..Len(file.servers) : file.servers[i].tools.kind # "list"

\* C31: when the registry file is missing or its load fails (unreadable
\* file, or a file with an entry that is not a valid descriptor), the
\* registry after the start holds no entry of the file, only the seeded
\* default.
C31_FailedLoadStartsEmpty ==
    (call.op \in {"import", "restart"} /\ LoadFails(registry_file))
        => servers = <<GithubMcp>>

\* what does hold: a missing or unreadable file, or one whose first entry is
\* invalid, gives the seeded default only, and a start never fails
C31_UnreadableFileStartsEmpty ==
    (/\ call.op \in {"import", "restart"}
     /\ \/ ~registry_file.exists
        \/ ~registry_file.parses
        \/ /\ registry_file.servers # <<>>
           /\ registry_file.servers[1].tools.kind # "list")
        => servers = <<GithubMcp>>

\* a start on an unreadable file
C31_StartedOnCorruptFile ==
    /\ call.op = "import"
    /\ registry_file = CorruptFile
    /\ servers = <<GithubMcp>>

\* the step is a register or an unregister of a registered name whose write
\* of the registry file failed
WriteFailed ==
    /\ \/ call'.op = "register"
       \/ call'.op = "unregister_server" /\ call'.existed
    /\ call'.io # "ok"

\* the step returned its normal value and the registry reflects the mutation
MutationKept ==
    IF call'.op = "register"
    THEN /\ call'.name \in ServerNames(servers')
         /\ ret'.server = get(servers', call'.name)
         /\ ret'.server.url = call'.server.url
         /\ ret'.server.last_seen = clock'
    ELSE /\ ret'.success
         /\ call'.name \notin ServerNames(servers')

\* C32: when the write of the registry file fails during register or
\* unregister, the operation returns its normal value, the registry reflects
\* the mutation, and the registry file keeps its previous content.
C32_WriteFailureKeepsFile ==
    [][WriteFailed => MutationKept /\ registry_file' = registry_file]_vars

\* what does hold: the mutation is kept and the normal value returned
\* whatever the failure, and the file is as it was when mkdir or open failed
C32_WriteFailureKeepsMutation ==
    [][WriteFailed =>
         /\ MutationKept
         /\ call'.io = "error" => registry_file' = registry_file]_vars

\* a registration whose write failed before the file was opened: the
\* registry has the descriptor, the file does not
C32_FailedOpenWitness ==
    /\ call.op = "register"
    /\ call.io = "error"
    /\ registry_file.exists /\ registry_file.parses
    /\ call.name \in ServerNames(servers)
    /\ \A i \in 1..Len(registry_file.servers) : registry_file.servers[i].name # call.name

-----------------------------------------------------------------------------
(* Claims about malformed catalogs *)

\* C33: a 200 answer to a catalog fetch whose body is malformed or not of an
\* accepted shape (an object whose tools field is null or not a list
\* included) is an empty result: what the fetch caches and returns is always
\* a list of tools, and list_server_tools of a registered server never
\* faults.
C33_CatalogIsAlwaysAList ==
    /\ \A name \in DOMAIN tool_cache : tool_cache[name].kind = "list"
    /\ \A i \in 1..Len(servers) : servers[i].tools.kind = "list"
    /\ (call.op = "list_server_tools" /\ call.existed) =>
          ret.fault = "none" /\ ret.tools.kind = "list"

\* a listing of a registered server faulted on a catalog that is None
C33_ListingFaulted ==
    /\ call.op = "list_server_tools"
    /\ call.existed
    /\ ret.fault # "none"
    /\ tool_cache[call.name] = PyNone

-----------------------------------------------------------------------------
(* Concurrent requests: handlers interleave at their awaits *)

\* svc-a registered at one endpoint, and at another
SvcAtA == MCPServer("svc-a", UrlA, "", "None", "None", TRUE)
SvcAtB == MCPServer("svc-a", UrlB, "", "None", "None", TRUE)

\* the catalogs the endpoints serve: search at github-mcp's, echo at the
\* first endpoint of svc-a, add and sub at the second; or no answer
EndpointWorlds ==
    {(UrlGithub :> FetchList(<<"search">>)) @@ (UrlA :> FetchList(<<"echo">>))
        @@ (UrlB :> FetchDict(<<"add", "sub">>)),
     (UrlGithub :> FetchRefused) @@ (UrlA :> FetchRefused) @@ (UrlB :> FetchRefused)}

NextConcurrent ==
    \/ \E server \in {SvcAtA, SvcAtB}, t \in GatewayInstants, io \in IoOutcomes :
          Register(server, t, io)
    \/ \E name \in {"svc-a"} : UnregisterServer(name, "ok")
    \/ \E name \in {"svc-a", "github-mcp"}, refresh \in BOOLEAN, t \in GatewayInstants :
          BeginListServerTools(name, refresh, t)
    \/ \E p \in pending, world \in EndpointWorlds, t \in GatewayInstants :
          CompleteListServerTools(p, world[p.url], t)
    \/ \E name \in {"svc-a", "github-mcp"} \cap ServerNames(servers),
          world \in EndpointWorlds, t \in GatewayInstants :
          ListServerTools(name, FALSE, world[get(servers, name).url], t)
    \/ BeginRegisterServer(RegisterRequest("svc-a", UrlB))
    \/ \E p \in pending, resps \in {ProbeAlive, ProbeDead}, t \in GatewayInstants :
          CompleteRegisterServer(p, resps, t, "ok")
    \/ \E t \in GatewayInstants, docker \in {DockerUp},
          world \in {[u \in ScannedUrls |-> ProbeAlive]} :
          Discover(DiscoverRequest(FALSE, TRUE, FALSE, << >>), t, NoResponse,
                   Refused, docker, world, NoResponse, "ok")

SpecConcurrent == Init /\ [][NextConcurrent]_vars

\* the step changed the registry through register, unregister or the
\* auto-registration of a discovery pass
MutatesRegistry ==
    /\ call'.op \in {"register", "register_server", "unregister_server", "discover"}
    /\ servers' # servers

\* C34: mutation-plus-persist is atomic under every interleaving of
\* concurrent registrations, unregistrations and discovery passes: the write
\* is made in the step of the mutation, so the registry file is never a
\* partial write and never holds a state the registry was not in at the
\* moment of the write.
C34_MutationAndPersistAtomic ==
    [][/\ registry_file'.exists => registry_file'.parses
       /\ registry_file' # registry_file =>
             MutatesRegistry /\ StoreMatches(registry_file', servers')
      ]_vars

\* what does hold: the file changes only in the step of a mutation, and a
\* write that succeeded wrote the registry of that moment
C34_NoStepBetweenMutationAndWrite ==
    [][registry_file' # registry_file =>
         /\ MutatesRegistry
         /\ registry_file'.parses => StoreMatches(registry_file', servers')
      ]_vars

\* two requests were suspended while a third registered and wrote the file
C34_InterleavedWitness ==
    /\ Cardinality(pending) = 2
    /\ call.op = "register"
    /\ StoreMatches(registry_file, servers)

\* C35: in every reachable state the names that hold a tool-cache entry or
\* a freshness stamp are registered names, also when a fetch in flight for a
\* server completes after the server was unregistered by another request.
C35_CacheOnlyForRegistered ==
    /\ DOMAIN tool_cache \subseteq ServerNames(servers)
    /\ DOMAIN last_cache_refresh \subseteq ServerNames(servers)

\* the cache entries alone: a fetch that completes after the unregistration
\* leaves one
C35_CatalogOnlyForRegistered == DOMAIN tool_cache \subseteq ServerNames(servers)

\* without a fetch in flight over an unregistration, the names holding a
\* cached catalog are registered names
C35_SequentialCatalogOnlyForRegistered ==
    [][(DOMAIN tool_cache \subseteq ServerNames(servers)
        /\ call'.op # "complete_list_server_tools")
         => DOMAIN tool_cache' \subseteq ServerNames(servers')]_vars

\* C36: unregistration resets freshness.  A registered server that holds no
\* cached catalog (none was put since it was registered) is not fresh: the
\* first listing without refresh after unregister and register goes to the
\* network instead of returning an empty catalog as fresh.
C36_UnregisterResetsFreshness ==
    [][(/\ call'.op = "list_server_tools"
        /\ call'.existed
        /\ ~call'.refresh
        /\ call'.name \notin DOMAIN tool_cache)
         => ~call'.cached /\ http_log' # << >>]_vars

\* a listing served "from the cache" to a server registered again after its
\* unregistration: no request, an empty catalog
C36_EmptyCatalogServedAsFresh ==
    /\ call.op = "list_server_tools"
    /\ call.existed
    /\ call.cached
    /\ call.name \notin DOMAIN tool_cache
    /\ ret.tools = PyList(<<>>)
    /\ http_log = << >>

\* the tools the endpoint at url serves in EndpointWorlds
ServedAt(url) ==
    IF url = UrlA THEN {"echo"} ELSE IF url = UrlB THEN {"add", "sub"} ELSE {"search"}

\* C37: the catalog served for a name was fetched from the endpoint the name
\* is registered at: a listing without refresh returns no tool fetched from
\* an endpoint the server was registered at before, also when the fetch
\* against the old endpoint was in flight during the re-registration.
C37_CatalogIsOfCurrentEndpoint ==
    [][(/\ call'.op = "list_server_tools"
        /\ call'.existed
        /\ ~call'.refresh
        /\ ret'.fault = "none")
         => \A j \in 1..Len(ret'.tools.items) :
               ret'.tools.items[j] \in ServedAt(get(servers, call'.name).url)]_vars

\* the in-flight half: a fetch that completes caches only what the endpoint
\* the name is registered at serves
C37_CompletedFetchIsOfCurrentEndpoint ==
    [][(call'.op = "complete_list_server_tools" /\ call'.name \in ServerNames(servers'))
         => call'.url = get(servers', call'.name).url]_vars

\* the sequential half: without any request in flight, a listing without
\* refresh returns only tools of the current endpoint
C37_SequentialCatalogIsOfCurrentEndpoint ==
    [][(/\ call'.op = "list_server_tools"
        /\ call'.existed
        /\ ~call'.refresh
        /\ call'.cached
        /\ ret'.fault = "none"
        /\ call.op = "register")
         => \A j \in 1..Len(ret'.tools.items) :
               ret'.tools.items[j] \in ServedAt(get(servers, call'.name).url)]_vars

(***************************************************************************)
(* Claims about at-most-once execution                                     *)
(***************************************************************************)

\* the number of invocation POSTs of the step that a candidate answered
\* with 200/201
AcceptedPosts(log) == Cardinality({i \in 1..Len(log) : log[i].status \in {200, 201}})

\* C38: a tool is executed at most once per invocation: once a candidate has
\* answered the invocation POST with 200/201, no further candidate receives
\* the POST, also when the body of that answer is not parseable JSON.
C38_ExecutedAtMostOnce ==
    [][Invokes =>
        /\ AcceptedPosts(http_log') <= 1
        /\ \A i \in 1..Len(http_log') :
              http_log'[i].status \in {200, 201} => Len(http_log') = i
      ]_vars

\* an invocation in which two candidates accepted the POST
C38_ExecutedTwice ==
    /\ call.op = "invoke_tool"
    /\ AcceptedPosts(http_log) >= 2

\* the part that holds: a 200/201 whose body parses ends the invocation
C38_ParsedAnswerEndsInvocation ==
    [][Invokes =>
        \A i \in 1..Len(http_log') :
            (http_log'[i].status \in {200, 201} /\ http_log'[i].body.shape # "malformed")
                => Len(http_log') = i
      ]_vars

(***************************************************************************)
(* Claims about the source a discovery pass reports                        *)
(***************************************************************************)

\* the availability answer of the discovery service is cached at instant t
\* and says available
CachedAvailable(t) ==
    /\ service_available = "True"
    /\ AvailabilityCached(FALSE, service_available, last_check, t)

\* the step's POST /services/refresh failed or returned no service
RefreshGaveNothing(log) ==
    \E i \in 1..Len(log) :
        /\ log[i].path = "/services/refresh"
        /\ \/ log[i].status # 200
           \/ ~log[i].body.valid
           \/ log[i].body.services = << >>

\* every entry of the sequence comes from the local scanner
LocallyScanned(discovered) ==
    \A i \in 1..Len(discovered) : discovered[i].source \in {"docker", "port_scan"}

\* C39: discover() never reports source "error" and never a remote source
\* for locally scanned results; when the availability cached within the last
\* 30 seconds says available but the forced refresh fails or returns
\* nothing, it runs the local scanner and reports source "local".
C39_FailedRefreshFallsBackToLocal ==
    [][call'.op = "discover" =>
        /\ ret'.source # "error"
        /\ call'.scanned => ret'.source = "local" /\ LocallyScanned(ret'.discovered)
        /\ ret'.source # "local" => ~LocallyScanned(ret'.discovered)
        /\ (/\ call'.request.use_discovery_service
            /\ CachedAvailable(clock')
            /\ RefreshGaveNothing(http_log'))
             => /\ call'.scanned
                /\ ret'.source = "local"
                /\ LocallyScanned(ret'.discovered)
                /\ http_log'[1].path = "/services/refresh"
      ]_vars

\* a pass that trusted the cached availability, got no answer to the
\* refresh, and returned what the local scanner found as source "local"
C39_Witness ==
    /\ call.op = "discover"
    /\ call.request.use_discovery_service
    /\ call.available
    /\ http_log # << >>
    /\ http_log[1].path = "/services/refresh"
    /\ http_log[1].status = NoResponse
    /\ call.scanned
    /\ ret.source = "local"
    /\ ret.count > 0

(***************************************************************************)
(* Durability of unregistration                                            *)
(***************************************************************************)

InitDurable ==
    \E file \in {NoFile, StoredFile(<<model_dump(StoredA), model_dump(StoredB)>>)},
       catalog \in {NoCatalog, DeclaredCatalog} :
       InitState(file, NoEnviron, catalog)

NextDurable ==
    \/ \E server \in {StoredA, MCPServer("fs", "http://fs:7000", "", "None", "None", TRUE)},
          t \in PersistInstants, io \in IoOutcomes :
          Register(server, t, io)
    \/ \E name \in {"svc-a", "fs", "github-mcp"}, io \in IoOutcomes :
          UnregisterServer(name, io)
    \/ Restart

SpecDurable == InitDurable /\ [][NextDurable]_vars

\* the names _register_defaults registers when they are absent
SeededNames == {"github-mcp"} \cup DeclaredRefs

\* the step restarts the process right after an unregistration that
\* returned true and whose write of the file succeeded
RestartsAfterUnregister ==
    /\ call'.op = "restart"
    /\ call.op = "unregister_server"
    /\ ret.success
    /\ call.io = "ok"

\* C40 as claimed: for every name, after unregister(name) returned true and
\* was persisted, a restart with no registration or discovery in between
\* leaves get(name) absent.
C40_UnregistrationIsDurable ==
    [][RestartsAfterUnregister => call.name \notin ServerNames(servers')]_vars

\* C40: after unregister(name) returned true and was persisted, a restart
\* with no registration or discovery in between leaves get(name) absent for
\* every name that is not a seeded default; github-mcp and the tool-servers
\* the catalog declares are registered again by the start, as the default
\* descriptor and as disabled placeholders.
C40_UnregistrationDurableButForDefaults ==
    [][RestartsAfterUnregister =>
        IF call.name \in SeededNames
        THEN /\ call.name \in ServerNames(servers')
             /\ IF call.name = "github-mcp"
                THEN get(servers', call.name) = GithubMcp
                ELSE IsPlaceholder(get(servers', call.name))
        ELSE call.name \notin ServerNames(servers')
      ]_vars

\* svc-a was in the registry file, was unregistered, and is absent after the
\* restart while the rest of the file was loaded
C40_Witness ==
    /\ call.op = "restart"
    /\ call.unregistered = "svc-a"
    /\ "svc-a" \notin ServerNames(servers)
    /\ "svc-b" \in ServerNames(servers)
    /\ registry_file.exists /\ registry_file.parses

\* a seeded default that was unregistered is back after the restart
C40_DefaultIsBack ==
    /\ call.op = "restart"
    /\ call.unregistered \in {"github-mcp", "fs"}
    /\ call.unregistered \in ServerNames(servers)

=============================================================================
